---- MODULE Spec2Model ----
(***************************************************************************)
(* Two-pass assembler (PilPara/Assembler): preprocessor, lexer, parser,    *)
(* first pass, second pass and output generation, modelled at the level of *)
(* characters in line buffers.  A line buffer is a sequence of one         *)
(* character strings; a NUL written into a buffer by the code is the value *)
(* NUL.  Tokens are views (line, start, len) into the preprocessed lines.  *)
(***************************************************************************)
EXTENDS Integers, Sequences, FiniteSets, TLC

\* ------------------------------------------------------------------ bounds

\* Largest number of raw source lines of a generated program.
MaxLines == 2

\* ------------------------------------------------------- program constants

INITIAL_IC == 100
MAX_LINE_LEN == 81
MAX_MCRO_NAME_LEN == 31
MAX_LABEL_LEN == 31
INT21_MIN == -1048576
INT21_MAX == 1048575
UINT24_MAX == 16777215
WORD_MASK == 16777215
IMM_SHIFT == 3
OPCODE_POS == 18
SRC_ADD_MODE_POS == 16
SRC_OPERAND_POS == 13
DST_ADD_MODE_POS == 11
DST_OPERAND_POS == 8
FUNCT_POS == 3
ARE_POS == 0
ARE_ABSOLUTE == 4
ARE_EXTERNAL == 1
ARE_RELOCATABLE == 2
ADD_MOD_NONE == -1
ADD_MOD_IMMEDIATE == 0
ADD_MOD_DIRECT == 1
ADD_MOD_RELATIVE == 2
ADD_MOD_REGISTER == 3
ADD_IMMEDIATE == 1
ADD_DIRECT == 2
ADD_RELATIVE == 4
ADD_REGISTER == 8

\* ------------------------------------------------------------- characters

NUL == "NUL"
NULLV == [null |-> TRUE]
SP == " "
TAB == "TAB"
NL == "NL"

Lower == {"a","b","c","d","e","f","g","h","i","j","k","l","m",
          "n","o","p","q","r","s","t","u","v","w","x","y","z"}
Upper == {"A","B","C","D","E","F","G","H","I","J","K","L","M",
          "N","O","P","Q","R","S","T","U","V","W","X","Y","Z"}
Digits == {"0","1","2","3","4","5","6","7","8","9"}

isalpha(c) == c \in Lower \cup Upper
isdigit(c) == c \in Digits
isupper(c) == c \in Upper
isalnum(c) == isalpha(c) \/ isdigit(c)
IsBlank(c) == c = SP \/ c = TAB

DigitVal(c) ==
  CASE c = "0" -> 0 [] c = "1" -> 1 [] c = "2" -> 2 [] c = "3" -> 3
    [] c = "4" -> 4 [] c = "5" -> 5 [] c = "6" -> 6 [] c = "7" -> 7
    [] c = "8" -> 8 [] c = "9" -> 9

\* The character codes of the characters that string literals of the model use.
CharCode(c) ==
  CASE c = "X" -> 88 [] c = "Y" -> 89 [] c = "W" -> 87 [] c = "L" -> 76
    [] c = "K" -> 75 [] c = "Q" -> 81 [] c = "\"" -> 34 [] c = SP -> 32
    [] c = "a" -> 97 [] c = "b" -> 98 [] c = "," -> 44
    [] OTHER -> 63

\* ------------------------------------------------------ C strings in buffers

\* Index of the first NUL of buf at or after position p (Len(buf)+1: the
\* terminator that ends every buffer).
RECURSIVE StrEnd(_, _)
StrEnd(buf, p) ==
  IF p > Len(buf) THEN Len(buf) + 1
  ELSE IF buf[p] = NUL THEN p ELSE StrEnd(buf, p + 1)

\* The C string that starts at position p of buf.
CStr(buf, p) == SubSeq(buf, p, StrEnd(buf, p) - 1)

strlen(buf, p) == StrEnd(buf, p) - p

\* str[i] = '\0' for position p of buf (a write onto the terminator changes nothing).
PutNul(buf, p) == IF p >= 1 /\ p <= Len(buf) THEN [buf EXCEPT ![p] = NUL] ELSE buf

\* strncmp(s, name, n) == 0 for C strings s and name.
Take(s, n) == IF n >= Len(s) THEN s ELSE SubSeq(s, 1, n)
strncmp_eq(s, name, n) == Take(s, n) = Take(name, n)

\* sv_starts_with
sv_starts_with(sv, str) == Len(str) <= Len(sv) /\ SubSeq(sv, 1, Len(str)) = str

\* sv_ends_with
sv_ends_with(sv, str) ==
  Len(str) <= Len(sv) /\ SubSeq(sv, Len(sv) - Len(str) + 1, Len(sv)) = str

\* sv_trim_left, sv_trim_right, sv_trim on a sequence of characters: the number
\* of characters dropped on the left, and the length kept.
RECURSIVE LeftBlanks(_, _)
LeftBlanks(s, i) ==
  IF i <= Len(s) /\ IsBlank(s[i]) THEN LeftBlanks(s, i + 1) ELSE i - 1

RECURSIVE RightBlanks(_, _)
RightBlanks(s, i) ==
  IF i < Len(s) /\ IsBlank(s[Len(s) - i]) THEN RightBlanks(s, i + 1) ELSE i

sv_trim_left(s) == SubSeq(s, LeftBlanks(s, 1) + 1, Len(s))
sv_trim_right(s) == SubSeq(s, 1, Len(s) - RightBlanks(s, 0))
sv_trim(s) == sv_trim_right(sv_trim_left(s))

\* ------------------------------------------------------------- ISA tables

instruction_set == <<
  [name |-> <<"m","o","v">>,     opcode |-> 0,  funct |-> 0, num_operands |-> 2,
   allowd_src_add_mode |-> {ADD_IMMEDIATE, ADD_DIRECT, ADD_REGISTER},
   allowd_dst_add_mode |-> {ADD_DIRECT, ADD_REGISTER}],
  [name |-> <<"c","m","p">>,     opcode |-> 1,  funct |-> 0, num_operands |-> 2,
   allowd_src_add_mode |-> {ADD_IMMEDIATE, ADD_DIRECT, ADD_REGISTER},
   allowd_dst_add_mode |-> {ADD_IMMEDIATE, ADD_DIRECT, ADD_REGISTER}],
  [name |-> <<"a","d","d">>,     opcode |-> 2,  funct |-> 1, num_operands |-> 2,
   allowd_src_add_mode |-> {ADD_IMMEDIATE, ADD_DIRECT, ADD_REGISTER},
   allowd_dst_add_mode |-> {ADD_DIRECT, ADD_REGISTER}],
  [name |-> <<"s","u","b">>,     opcode |-> 2,  funct |-> 2, num_operands |-> 2,
   allowd_src_add_mode |-> {ADD_IMMEDIATE, ADD_DIRECT, ADD_REGISTER},
   allowd_dst_add_mode |-> {ADD_DIRECT, ADD_REGISTER}],
  [name |-> <<"l","e","a">>,     opcode |-> 4,  funct |-> 0, num_operands |-> 2,
   allowd_src_add_mode |-> {ADD_DIRECT},
   allowd_dst_add_mode |-> {ADD_DIRECT, ADD_REGISTER}],
  [name |-> <<"c","l","r">>,     opcode |-> 5,  funct |-> 1, num_operands |-> 1,
   allowd_src_add_mode |-> {},
   allowd_dst_add_mode |-> {ADD_DIRECT, ADD_REGISTER}],
  [name |-> <<"n","o","t">>,     opcode |-> 5,  funct |-> 2, num_operands |-> 1,
   allowd_src_add_mode |-> {},
   allowd_dst_add_mode |-> {ADD_DIRECT, ADD_REGISTER}],
  [name |-> <<"i","n","c">>,     opcode |-> 5,  funct |-> 3, num_operands |-> 1,
   allowd_src_add_mode |-> {},
   allowd_dst_add_mode |-> {ADD_DIRECT, ADD_REGISTER}],
  [name |-> <<"d","e","c">>,     opcode |-> 5,  funct |-> 4, num_operands |-> 1,
   allowd_src_add_mode |-> {},
   allowd_dst_add_mode |-> {ADD_DIRECT, ADD_REGISTER}],
  [name |-> <<"j","m","p">>,     opcode |-> 9,  funct |-> 1, num_operands |-> 1,
   allowd_src_add_mode |-> {},
   allowd_dst_add_mode |-> {ADD_DIRECT, ADD_RELATIVE}],
  [name |-> <<"b","n","e">>,     opcode |-> 9,  funct |-> 2, num_operands |-> 1,
   allowd_src_add_mode |-> {},
   allowd_dst_add_mode |-> {ADD_DIRECT, ADD_RELATIVE}],
  [name |-> <<"j","s","r">>,     opcode |-> 9,  funct |-> 3, num_operands |-> 1,
   allowd_src_add_mode |-> {},
   allowd_dst_add_mode |-> {ADD_DIRECT, ADD_RELATIVE}],
  [name |-> <<"r","e","d">>,     opcode |-> 12, funct |-> 0, num_operands |-> 1,
   allowd_src_add_mode |-> {},
   allowd_dst_add_mode |-> {ADD_DIRECT, ADD_REGISTER}],
  [name |-> <<"p","r","n">>,     opcode |-> 13, funct |-> 0, num_operands |-> 1,
   allowd_src_add_mode |-> {},
   allowd_dst_add_mode |-> {ADD_IMMEDIATE, ADD_DIRECT, ADD_REGISTER}],
  [name |-> <<"r","t","s">>,     opcode |-> 14, funct |-> 0, num_operands |-> 0,
   allowd_src_add_mode |-> {}, allowd_dst_add_mode |-> {}],
  [name |-> <<"s","t","o","p">>, opcode |-> 15, funct |-> 0, num_operands |-> 0,
   allowd_src_add_mode |-> {}, allowd_dst_add_mode |-> {}] >>

register_table == <<
  [name |-> <<"r","0">>, reg |-> 0], [name |-> <<"r","1">>, reg |-> 1],
  [name |-> <<"r","2">>, reg |-> 2], [name |-> <<"r","3">>, reg |-> 3],
  [name |-> <<"r","4">>, reg |-> 4], [name |-> <<"r","5">>, reg |-> 5],
  [name |-> <<"r","6">>, reg |-> 6], [name |-> <<"r","7">>, reg |-> 7] >>

directives == << <<"d","a","t","a">>, <<"s","t","r","i","n","g">>,
                 <<"e","n","t","r","y">>, <<"e","x","t","e","r","n">> >>

special_chars == {",", ".", ":", "&", "#", "\""}

\* is_instruction: strncmp over the length of the view, so any prefix matches
is_instruction(s, n) ==
  \E i \in 1..Len(instruction_set) : strncmp_eq(s, instruction_set[i].name, n)

\* find_instruction: strcmp; NULLV when there is none
find_instruction(name) ==
  IF \E i \in 1..Len(instruction_set) : instruction_set[i].name = name
  THEN instruction_set[CHOOSE i \in 1..Len(instruction_set) :
                          instruction_set[i].name = name]
  ELSE NULLV

is_register(s, n) ==
  \E i \in 1..Len(register_table) : strncmp_eq(s, register_table[i].name, n)

find_register(name) ==
  IF \E i \in 1..Len(register_table) : register_table[i].name = name
  THEN register_table[CHOOSE i \in 1..Len(register_table) :
                         register_table[i].name = name]
  ELSE NULLV

\* is_directive: index + 1 of the first directive the view is a prefix of, else 0
is_directive(s, n) ==
  IF \E i \in 1..Len(directives) : strncmp_eq(s, directives[i], n)
  THEN CHOOSE i \in 1..Len(directives) :
         /\ strncmp_eq(s, directives[i], n)
         /\ \A j \in 1..(i - 1) : ~strncmp_eq(s, directives[j], n)
  ELSE 0

is_special_char(s, n) == \E c \in special_chars : strncmp_eq(s, <<c>>, n)

\* is_identifier (sv.str[0] of an empty C string is the terminator)
is_identifier(s, n) ==
  /\ Len(s) >= 1 /\ isalpha(s[1])
  /\ \A i \in 2..n : i <= Len(s) /\ (isalnum(s[i]) \/ s[i] = "_")

\* ------------------------------------------------------------------ lexer

Err(kind, line) == [kind |-> kind, line |-> line]

\* First position at or after i that ends a multi character lexeme.
RECURSIVE LexemeEnd(_, _)
LexemeEnd(buf, i) ==
  IF i > Len(buf) \/ buf[i] \in special_chars \/ IsBlank(buf[i]) THEN i
  ELSE LexemeEnd(buf, i + 1)

\* token_identify: the type a lexeme gets from its characters alone
token_identify(buf, start, len) ==
  LET s == CStr(buf, start) IN
  IF len = 0 THEN "UNKNOWN"
  ELSE IF is_special_char(s, len) THEN
    CASE s[1] = "," -> "COMMA" [] s[1] = "." -> "DOT" [] s[1] = ":" -> "COLON"
      [] s[1] = "&" -> "AMPER" [] s[1] = "#" -> "HASH" [] s[1] = "\"" -> "QUOTE"
      [] OTHER -> "UNKNOWN"
  ELSE IF is_instruction(s, len) THEN "INSTRUCTION"
  ELSE IF is_register(s, len) THEN "REGISTER"
  ELSE IF is_directive(s, len) # 0 THEN
    CASE is_directive(s, len) = 1 -> "DIR_DATA"
      [] is_directive(s, len) = 2 -> "DIR_STRING"
      [] is_directive(s, len) = 3 -> "DIR_ENTRY"
      [] OTHER -> "DIR_EXTERN"
  ELSE IF is_identifier(s, len) THEN "IDENTIFIER"
  ELSE "UNKNOWN"

\* token_create
token_create(buf, start, len, line_number) ==
  [type |-> token_identify(buf, start, len), line |-> line_number,
   start |-> start, len |-> len]

\* The splitting loop of lexer_tokenize_line.
RECURSIVE SplitLine(_, _, _, _)
SplitLine(buf, i, line_number, acc) ==
  IF i > Len(buf) THEN acc
  ELSE IF IsBlank(buf[i]) THEN SplitLine(buf, i + 1, line_number, acc)
  ELSE IF buf[i] \in special_chars
    THEN SplitLine(buf, i + 1, line_number,
                   Append(acc, token_create(buf, i, 1, line_number)))
    ELSE LET j == LexemeEnd(buf, i) IN
         SplitLine(buf, j, line_number,
                   Append(acc, token_create(buf, i, j - i, line_number)))

\* The body of the DIR_DATA branch of identify_context: every token after
\* position i that is not a comma becomes an immediate.
MarkDataOperands(toks, i) ==
  [j \in 1..Len(toks) |->
     IF j > i /\ toks[j].type # "COMMA" THEN [toks[j] EXCEPT !.type = "IMM"]
     ELSE toks[j]]

\* identify_context from token i on; r is [toks, errors].
RECURSIVE identify_context_from(_, _, _)
identify_context_from(buf, r, i) ==
  IF i > Len(r.toks) THEN r
  ELSE
    LET hasPrev == i > 1
        hasNext == i < Len(r.toks)
        t1 == IF hasPrev /\ r.toks[i].type = "COLON"
              THEN [r.toks EXCEPT ![i - 1].type = "LABEL"] ELSE r.toks
        tok == t1[i]
        prevT == IF hasPrev THEN t1[i - 1].type ELSE "NONE"
        nextT == IF hasNext THEN t1[i + 1].type ELSE "NONE"
        afterPrev == IF hasPrev THEN t1[i - 1].start + t1[i - 1].len ELSE 0
    IN
    IF hasPrev /\ prevT = "COLON" /\ tok.type = "DOT" THEN
      identify_context_from(buf,
        [toks |-> t1,
         errors |-> IF afterPrev <= Len(buf) /\ buf[afterPrev] = "."
                    THEN Append(r.errors, Err("LABEL_MISSING_SPACE", tok.line))
                    ELSE r.errors], i + 1)
    ELSE IF hasNext /\ tok.type = "HASH" THEN
      identify_context_from(buf,
        [toks |-> [t1 EXCEPT ![i + 1].type = "IMM"], errors |-> r.errors], i + 1)
    ELSE IF hasPrev /\ tok.type = "COMMA" /\ prevT = "IMM" THEN
      identify_context_from(buf,
        [toks |-> [t1 EXCEPT ![i].type = "IMM"], errors |-> r.errors], i + 1)
    ELSE IF hasPrev /\ tok.type = "COMMA" /\ prevT = "STR_LIT" THEN
      identify_context_from(buf,
        [toks |-> [t1 EXCEPT ![i].type = "STR_LIT"], errors |-> r.errors], i + 1)
    ELSE IF hasPrev /\ hasNext /\ prevT = "QUOTE" /\ nextT = "QUOTE" THEN
      identify_context_from(buf,
        [toks |-> [t1 EXCEPT ![i].type = "STR_LIT"], errors |-> r.errors], i + 1)
    ELSE IF tok.type = "DIR_DATA" THEN
      [toks |-> MarkDataOperands(t1, i), errors |-> r.errors]
    ELSE identify_context_from(buf, [toks |-> t1, errors |-> r.errors], i + 1)

identify_context(buf, toks) ==
  identify_context_from(buf, [toks |-> toks, errors |-> <<>>], 1)

\* The closing loop of lexer_tokenize_line: a token still UNKNOWN becomes
\* INVALID, loses its view, and is reported.
InvalidateUnknown(toks) ==
  [j \in 1..Len(toks) |->
     IF toks[j].type = "UNKNOWN"
     THEN [toks[j] EXCEPT !.type = "INVALID", !.start = 0, !.len = 0]
     ELSE toks[j]]

RECURSIVE UnknownErrors(_, _)
UnknownErrors(toks, j) ==
  IF j > Len(toks) THEN <<>>
  ELSE (IF toks[j].type = "UNKNOWN"
        THEN <<Err("INVALID_TOKEN", toks[j].line)>> ELSE <<>>)
       \o UnknownErrors(toks, j + 1)

\* lexer_tokenize_line: the tokens of one preprocessed line and the errors
\* the lexer reports for it.
lexer_tokenize_line(buf, line_number) ==
  LET c == identify_context(buf, SplitLine(buf, 1, line_number, <<>>)) IN
  [toks |-> InvalidateUnknown(c.toks),
   errors |-> c.errors \o UnknownErrors(c.toks, 1)]

\* ----------------------------------------------------------------- numbers

RECURSIVE SkipSpace(_, _)
SkipSpace(s, i) ==
  IF i <= Len(s) /\ IsBlank(s[i]) THEN SkipSpace(s, i + 1) ELSE i

RECURSIVE DigitsEnd(_, _)
DigitsEnd(s, i) ==
  IF i <= Len(s) /\ isdigit(s[i]) THEN DigitsEnd(s, i + 1) ELSE i

RECURSIVE DigitsValue(_, _, _, _)
DigitsValue(s, i, j, acc) ==
  IF i >= j THEN acc ELSE DigitsValue(s, i + 1, j, acc * 10 + DigitVal(s[i]))

\* strtol(s, &endptr, 10) of a C string whose digits fit a long: the value and
\* the position of endptr in s (1 when no digits were read).
strtol(s) ==
  LET i0 == SkipSpace(s, 1)
      signed == i0 <= Len(s) /\ (s[i0] = "-" \/ s[i0] = "+")
      d0 == IF signed THEN i0 + 1 ELSE i0
      dEnd == DigitsEnd(s, d0)
      mag == DigitsValue(s, d0, dEnd, 0)
  IN IF dEnd = d0 THEN [value |-> 0, endptr |-> 1]
     ELSE [value |-> IF signed /\ s[i0] = "-" THEN 0 - mag ELSE mag,
           endptr |-> dEnd]

\* atoi(s) for values that fit an int
atoi(s) == strtol(s).value

\* ------------------------------------------------------- statement shapes

TokStr(buf, tok) == CStr(buf, tok.start)
Lexeme(buf, tok) == SubSeq(buf, tok.start, tok.start + tok.len - 1)

is_operand(tok) == tok.type \in {"REGISTER", "IMM", "IDENTIFIER"}

count_operands(toks) == Cardinality({i \in 1..Len(toks) : is_operand(toks[i])})

calculate_code_word(type) == IF type \in {"IMM", "IDENTIFIER"} THEN 1 ELSE 0

get_addressing_mode(tok, is_amper) ==
  IF is_amper THEN ADD_MOD_RELATIVE
  ELSE CASE tok.type = "IMM" -> ADD_MOD_IMMEDIATE
         [] tok.type = "REGISTER" -> ADD_MOD_REGISTER
         [] tok.type = "IDENTIFIER" -> ADD_MOD_DIRECT
         [] OTHER -> ADD_MOD_NONE

is_label_statement(toks) == Len(toks) > 0 /\ toks[1].type = "LABEL"

FirstAfterLabel(toks) == IF is_label_statement(toks) THEN 3 ELSE 1

is_instruction_statement(toks) ==
  \E i \in FirstAfterLabel(toks)..Len(toks) : toks[i].type = "INSTRUCTION"

is_entry_statement(toks) == \E i \in 1..Len(toks) : toks[i].type = "DIR_ENTRY"

is_extern_statement(toks) == \E i \in 1..Len(toks) : toks[i].type = "DIR_EXTERN"

is_directive_statement(toks) ==
  \E i \in FirstAfterLabel(toks)..Len(toks) :
     toks[i].type \in {"DIR_STRING", "DIR_DATA", "DIR_ENTRY", "DIR_EXTERN"}

\* ------------------------------------------------------------- validation

\* The outcome of validate_immediate: "OK" or the error kind it reports.  The
\* text converted is the C string that starts at the token, up to the next NUL.
validate_immediate(buf, tok) ==
  LET str == TokStr(buf, tok)
      r == strtol(str)
  IN IF r.endptr <= Len(str) THEN "INVALID_IMM"
     ELSE IF r.value < INT21_MIN \/ r.value > INT21_MAX THEN "IMM_OUT_OF_BOUNDS"
     ELSE "OK"

\* The outcome of validate_data_value on the buffer in which the token has
\* already been terminated.
validate_data_value(buf, tok) ==
  LET str == TokStr(buf, tok)
      value == atoi(str)
  IN IF value = 0 /\ str # <<"0">> THEN "INVALID_DATA"
     ELSE IF value < INT21_MIN \/ value > INT21_MAX - 1 THEN "IMM_OUT_OF_BOUNDS"
     ELSE "OK"

ModeAllowed(mode, mask) ==
  CASE mode = ADD_MOD_IMMEDIATE -> ADD_IMMEDIATE \in mask
    [] mode = ADD_MOD_DIRECT -> ADD_DIRECT \in mask
    [] mode = ADD_MOD_RELATIVE -> ADD_RELATIVE \in mask
    [] mode = ADD_MOD_REGISTER -> ADD_REGISTER \in mask
    [] OTHER -> FALSE

\* validate_instruction: the errors it reports for a parsed instruction whose
\* mnemonic has been terminated in buf; none when the mnemonic is not in the
\* table.
validate_instruction(buf, toks, ins) ==
  LET itok == toks[ins.instruction]
      info == find_instruction(TokStr(buf, itok))
  IN IF info = NULLV THEN <<>>
     ELSE (IF ins.operand_count # info.num_operands
             THEN <<Err("SYNTAX_NUM_OPERANDS", itok.line)>> ELSE <<>>)
          \o (IF ins.rs # 0 /\ ~ModeAllowed(ins.rs_add_mode, info.allowd_src_add_mode)
                THEN <<Err("SYNTAX_ADD_MOD", itok.line)>> ELSE <<>>)
          \o (IF ins.rt # 0 /\ ~ModeAllowed(ins.rt_add_mode, info.allowd_dst_add_mode)
                THEN <<Err("SYNTAX_ADD_MOD", itok.line)>> ELSE <<>>)

parsed_instruction_init ==
  [label |-> 0, instruction |-> 0, rs |-> 0, rs_add_mode |-> ADD_MOD_NONE,
   rt |-> 0, rt_add_mode |-> ADD_MOD_NONE, operand_count |-> 0,
   code_word_count |-> 0]

\* The operand loop of parse_instruction from token i on.  st carries the
\* instruction, is_amper, comma_count, the errors reported and whether
\* validate_immediate made the function return.
RECURSIVE ParseOperands(_, _, _, _, _)
ParseOperands(buf, toks, i, st, mode) ==
  IF i > Len(toks) \/ st.returned THEN st
  ELSE
    LET tok == toks[i]
        amp == st.is_amper \/ tok.type = "AMPER"
        imm == IF mode = 1 /\ tok.type = "IMM" THEN validate_immediate(buf, tok) ELSE "OK"
        bad == IF imm = "OK" THEN <<>> ELSE <<Err(imm, tok.line)>>
        st1 ==
          IF is_operand(tok) /\ st.ins.rs = 0
            THEN [st EXCEPT !.ins.rs = i,
                            !.ins.rs_add_mode = get_addressing_mode(tok, amp),
                            !.errors = @ \o bad, !.returned = (imm # "OK")]
          ELSE IF is_operand(tok) /\ st.ins.rt = 0
            THEN [st EXCEPT !.ins.rt = i,
                            !.ins.rt_add_mode = get_addressing_mode(tok, amp),
                            !.errors = @ \o bad, !.returned = (imm # "OK")]
          ELSE IF ~is_operand(tok) /\ tok.type = "COMMA"
            THEN [st EXCEPT !.comma_count = @ + 1]
          ELSE st
    IN ParseOperands(buf, toks, i + 1, [st1 EXCEPT !.is_amper = amp], mode)

\* The instruction once the operand loop is over: a lone operand is the
\* destination
LoneOperand(ins) ==
  IF ins.operand_count = 1
    THEN [ins EXCEPT !.rt = ins.rs, !.rs = 0, !.rt_add_mode = ins.rs_add_mode,
                     !.rs_add_mode = ADD_MOD_NONE]
    ELSE ins

\* The extra words of the operands added to code_word_count
CountWords(toks, ins) ==
  [ins EXCEPT !.code_word_count =
     @ + (IF ins.rs # 0 THEN calculate_code_word(toks[ins.rs].type) ELSE 0)
       + (IF ins.rt # 0 THEN calculate_code_word(toks[ins.rt].type) ELSE 0)]

Parsed(ins, errors, buf, fault) ==
  [ins |-> ins, errors |-> errors, buf |-> buf, fault |-> fault]

\* The end of parse_instruction in mode 1: validate_instruction (which
\* terminates the mnemonic in place, through a null pointer for a token the
\* lexer invalidated) and the count of commas
ValidateParsed(buf, toks, line_number, ins, comma_count) ==
  IF ins.instruction = 0 THEN Parsed(ins, <<>>, buf, FALSE)
  ELSE IF toks[ins.instruction].start = 0 THEN Parsed(ins, <<>>, buf, TRUE)
  ELSE Parsed(ins,
              validate_instruction(
                  PutNul(buf, toks[ins.instruction].start + toks[ins.instruction].len),
                  toks, ins)
                \o (IF ins.operand_count = 2 /\ comma_count # 1
                      THEN <<Err("INST_ILLEGAL_NUM_COMMA", line_number)>> ELSE <<>>),
              PutNul(buf, toks[ins.instruction].start + toks[ins.instruction].len),
              FALSE)

\* parse_instruction after the operand loop
AfterOperands(buf, toks, line_number, mode, st) ==
  IF st.returned THEN Parsed(st.ins, st.errors, buf, FALSE)
  ELSE IF mode # 1 THEN Parsed(CountWords(toks, LoneOperand(st.ins)), <<>>, buf, FALSE)
  ELSE ValidateParsed(buf, toks, line_number, CountWords(toks, LoneOperand(st.ins)),
                      st.comma_count)

\* parse_instruction on a non-empty token list.  Result: the instruction, the
\* errors reported, the line buffer and whether the process faulted.
parse_instruction(buf, toks, line_number, mode) ==
  IF toks[1].type = "IDENTIFIER" /\ Len(toks) >= 2 /\ toks[2].type # "COLON"
    THEN Parsed([parsed_instruction_init EXCEPT !.code_word_count = 1],
                <<Err("LABEL_MISSING_COLON", line_number)>>, buf, FALSE)
  ELSE AfterOperands(buf, toks, line_number, mode,
         ParseOperands(buf, toks, FirstAfterLabel(toks) + 1,
           [ins |-> [parsed_instruction_init EXCEPT
                       !.code_word_count = 1,
                       !.label = IF toks[1].type = "LABEL" THEN 1 ELSE 0,
                       !.operand_count = count_operands(toks),
                       !.instruction = IF FirstAfterLabel(toks) <= Len(toks)
                                         THEN FirstAfterLabel(toks) ELSE 0],
            is_amper |-> FALSE, comma_count |-> 0, errors |-> <<>>,
            returned |-> FALSE],
           mode))

\* The loop of parse_directive over the tokens of a .data statement, from
\* token i on.  st carries code_word_count, the errors, the buffer (every value
\* is terminated in place), a null dereference and whether the loop returned.
RECURSIVE DataLoop(_, _, _)
DataLoop(toks, i, st) ==
  IF i > Len(toks) \/ st.returned \/ st.fault THEN st
  ELSE
    LET tok == toks[i]
        hasNext == i + 1 <= Len(toks)
        stop(kind) == [st EXCEPT !.errors = Append(@, Err(kind, tok.line)),
                                 !.returned = TRUE]
        last(s1) == IF i = Len(toks) THEN [s1 EXCEPT !.returned = TRUE] ELSE s1
    IN IF tok.type = "IMM"
         THEN IF hasNext /\ toks[i + 1].type # "COMMA"
                THEN stop("DIR_DATA_ILLEGAL_COMMA")
              ELSE
                LET b1 == PutNul(st.buf, tok.start + tok.len)
                    v == validate_data_value(b1, tok)
                IN IF v # "OK"
                     THEN [st EXCEPT !.buf = b1, !.returned = TRUE,
                                     !.errors = Append(@, Err(v, tok.line))]
                   ELSE DataLoop(toks, i + 1,
                          last([st EXCEPT !.buf = b1, !.code_word_count = @ + 1]))
       ELSE IF tok.type = "COMMA"
         THEN IF hasNext /\ toks[i + 1].type = "COMMA" THEN stop("DIR_MULTY_COMMAS")
              ELSE IF i = Len(toks) THEN stop("DIR_DATA_ILLEGAL_COMMA")
              ELSE DataLoop(toks, i + 1, st)
       ELSE IF tok.type = "DIR_DATA"
         THEN IF ~hasNext THEN [st EXCEPT !.fault = TRUE]
              ELSE IF toks[i + 1].type = "COMMA" THEN stop("DIR_DATA_ILLEGAL_COMMA")
              ELSE DataLoop(toks, i + 1, st)
       ELSE DataLoop(toks, i + 1, last(st))

RECURSIVE SumSeq(_)
SumSeq(s) == IF s = <<>> THEN 0 ELSE Head(s) + SumSeq(Tail(s))

\* The words a .string statement is counted as: strlen of the C string that
\* starts at each string-literal token.
StringWordCount(buf, toks) ==
  SumSeq([i \in 1..Len(toks) |->
            IF toks[i].type = "STR_LIT" THEN strlen(buf, toks[i].start) ELSE 0])

parsed_directive_init == [label |-> 0, directive |-> 0, code_word_count |-> 0]

\* parse_directive on a non-empty token list.  Result: the directive, the
\* errors reported, the line buffer and whether a null pointer was dereferenced.
parse_directive(buf, toks) ==
  LET i == IF toks[1].type = "LABEL" THEN 3 ELSE 1
      d0 == [parsed_directive_init EXCEPT !.label = IF i = 3 THEN 1 ELSE 0]
      out(d, errs, b, f) == [dir |-> d, errors |-> errs, buf |-> b, fault |-> f]
  IN IF i > Len(toks) THEN out(d0, <<>>, buf, TRUE)
     ELSE IF toks[i].type # "DOT"
       THEN out(d0, <<Err("DIR_DOT_MISSING", toks[i].line)>>, buf, FALSE)
     ELSE IF i + 1 > Len(toks) THEN out(d0, <<>>, buf, TRUE)
     ELSE
       LET d1 == [d0 EXCEPT !.directive = i + 1]
           dtok == toks[i + 1]
           lastTok == toks[Len(toks)]
       IN IF dtok.type = "DIR_STRING"
            THEN IF i + 2 <= Len(toks) /\ toks[i + 2].type = "COMMA"
                   THEN out(d1, <<Err("DIR_STR_ILLEGAL_COMMA", toks[i].line)>>, buf, FALSE)
                 ELSE IF i + 2 <= Len(toks) /\ toks[i + 2].type # "QUOTE"
                   THEN out(d1, <<Err("DIR_STR_MISSING_QUOTE", toks[i].line)>>, buf, FALSE)
                 ELSE
                   LET d2 == [d1 EXCEPT !.code_word_count = StringWordCount(buf, toks)]
                   IN IF lastTok.type = "COMMA"
                        THEN out(d2, <<Err("DIR_STR_ILLEGAL_COMMA", lastTok.line)>>, buf, FALSE)
                      ELSE IF lastTok.type # "QUOTE"
                        THEN out(d2, <<Err("DIR_STR_MISSING_QUOTE", lastTok.line)>>, buf, FALSE)
                      ELSE out(d2, <<>>, buf, FALSE)
          ELSE IF dtok.type = "DIR_DATA"
            THEN LET st == DataLoop(toks, 1,
                             [code_word_count |-> 0, errors |-> <<>>, buf |-> buf,
                              fault |-> FALSE, returned |-> FALSE])
                 IN out([d1 EXCEPT !.code_word_count = st.code_word_count],
                        st.errors, st.buf, st.fault)
          ELSE out(d1, <<>>, buf, FALSE)

\* ---------------------------------------------------------------- encoding

Field(word, pos, width) == (word \div (2 ^ pos)) % (2 ^ width)

\* SET_BITS for a mask of width bits at position pos
SET_BITS(word, value, width, pos) ==
  word - Field(word, pos, width) * (2 ^ pos) + (value % (2 ^ width)) * (2 ^ pos)

word_set_opcode(word, opcode) == SET_BITS(word, opcode, 6, OPCODE_POS)
word_set_rs_add_mod(word, mode) == SET_BITS(word, mode, 2, SRC_ADD_MODE_POS)
word_set_rs_operand(word, operand) == SET_BITS(word, operand, 3, SRC_OPERAND_POS)
word_set_rt_add_mod(word, mode) == SET_BITS(word, mode, 2, DST_ADD_MODE_POS)
word_set_rt_operand(word, operand) == SET_BITS(word, operand, 3, DST_OPERAND_POS)
word_set_funct(word, funct) == SET_BITS(word, funct, 5, FUNCT_POS)
word_set_are(word, are) == SET_BITS(word, are, 3, ARE_POS)

\* (immediate << IMM_SHIFT) & IMM_MASK
word_from_immediate(immediate) ==
  LET shifted == (immediate * (2 ^ IMM_SHIFT)) % (WORD_MASK + 1)
  IN shifted - (shifted % (2 ^ IMM_SHIFT))

\* immediate & WORD_MASK
data_from_immediate(immediate) == immediate % (WORD_MASK + 1)

Word(value, address) == [value |-> value, address |-> address]

\* encode_operand: the header word after one operand; the register name is
\* terminated in place.
encode_operand(buf, operand, word, is_source, is_relative) ==
  LET set_mod(w, m) == IF is_source THEN word_set_rs_add_mod(w, m)
                       ELSE word_set_rt_add_mod(w, m)
      set_reg(w, r) == IF is_source THEN word_set_rs_operand(w, r)
                       ELSE word_set_rt_operand(w, r)
  IN CASE operand.type = "REGISTER" ->
            LET b1 == PutNul(buf, operand.start + operand.len)
                reg_info == find_register(TokStr(b1, operand))
            IN [buf |-> b1,
                word |-> IF reg_info = NULLV THEN word
                         ELSE set_reg(set_mod(word, ADD_MOD_REGISTER), reg_info.reg)]
       [] operand.type = "IMM" ->
            [buf |-> buf, word |-> set_mod(word, ADD_MOD_IMMEDIATE)]
       [] operand.type = "IDENTIFIER" ->
            [buf |-> buf,
             word |-> set_mod(word, IF is_relative THEN ADD_MOD_RELATIVE
                                    ELSE ADD_MOD_DIRECT)]
       [] OTHER -> [buf |-> buf, word |-> word]

\* encode_first_word: the words appended to the code image (none when the
\* mnemonic is not in the table), the buffer, and a null dereference.
encode_first_word(buf, toks, ins, IC) ==
  IF ins.instruction = 0 \/ toks[ins.instruction].start = 0
    THEN [words |-> <<>>, buf |-> buf, fault |-> TRUE]
  ELSE
    LET itok == toks[ins.instruction]
        b1 == PutNul(buf, itok.start + itok.len)
        info == find_instruction(TokStr(b1, itok))
    IN IF info = NULLV THEN [words |-> <<>>, buf |-> b1, fault |-> FALSE]
       ELSE
         LET w0 == word_set_funct(word_set_opcode(word_set_are(0, ARE_ABSOLUTE),
                                                  info.opcode), info.funct)
             e1 == IF ins.rs # 0
                     THEN encode_operand(b1, toks[ins.rs], w0, TRUE,
                                         ins.rs_add_mode = ADD_MOD_RELATIVE)
                     ELSE [buf |-> b1, word |-> w0]
             e2 == IF ins.rt # 0
                     THEN encode_operand(e1.buf, toks[ins.rt], e1.word, FALSE,
                                         ins.rt_add_mode = ADD_MOD_RELATIVE)
                     ELSE e1
         IN [words |-> <<Word(e2.word, IC)>>, buf |-> e2.buf, fault |-> FALSE]

\* hash_map_get on a map kept as a sequence of [key, value] entries
hash_map_get(map, key) ==
  IF \E i \in 1..Len(map) : map[i].key = key
    THEN map[CHOOSE i \in 1..Len(map) : map[i].key = key].value
    ELSE NULLV

\* An extra word that holds, for every mode, the distance from the word
\* itself to the symbol
encode_operand_distance(buf, operand, symbol_table, add_mode, current_IC, line_number) ==
  LET b1 == PutNul(buf, operand.start + operand.len)
      symbol == hash_map_get(symbol_table, TokStr(b1, operand))
  IN IF operand.type = "IDENTIFIER" /\ symbol # NULLV
       THEN [words |-> <<Word(word_set_are(word_from_immediate(symbol.address - current_IC),
                                           ARE_ABSOLUTE), current_IC)>>,
             buf |-> b1, errors |-> <<>>]
       ELSE [words |-> <<Word(0, current_IC)>>, buf |-> buf, errors |-> <<>>]

\* encode_operand_extra: the extra word of an immediate or identifier operand.
encode_operand_extra(buf, operand, symbol_table, add_mode, current_IC, line_number) ==
  IF operand.type = "IMM"
    THEN LET value == atoi(TokStr(buf, operand))
         IN [words |-> <<Word(word_set_are(word_from_immediate(value), ARE_ABSOLUTE),
                              current_IC)>>,
             errors |-> IF value > INT21_MAX \/ value < INT21_MIN
                          THEN <<Err("IMM_OUT_OF_BOUNDS", operand.line)>> ELSE <<>>,
             buf |-> buf]
  ELSE IF operand.type = "IDENTIFIER"
    THEN LET b1 == PutNul(buf, operand.start + operand.len)
             symbol == hash_map_get(symbol_table, TokStr(b1, operand))
         IN IF symbol = NULLV
              THEN [words |-> <<>>, buf |-> b1,
                    errors |-> <<Err("SYMBOL_NOT_FOUND", line_number)>>]
            ELSE IF add_mode = ADD_MOD_DIRECT
              THEN [words |-> <<Word(word_set_are(word_from_immediate(symbol.address),
                                       IF symbol.external THEN ARE_EXTERNAL
                                       ELSE ARE_RELOCATABLE), current_IC)>>,
                    buf |-> b1,
                    errors |-> IF symbol.address > UINT24_MAX
                                 THEN <<Err("ADD_OUT_OF_BOUNDS", operand.line)>> ELSE <<>>]
            ELSE IF add_mode = ADD_MOD_RELATIVE
              THEN LET address == symbol.address - current_IC + 1
                   IN [words |-> <<Word(word_set_are(word_from_immediate(address),
                                                     ARE_ABSOLUTE), current_IC)>>,
                       buf |-> b1,
                       errors |-> IF address > INT21_MAX \/ address < INT21_MIN
                                    THEN <<Err("ADD_OUT_OF_BOUNDS", operand.line)>>
                                    ELSE <<>>]
            ELSE [words |-> <<Word(0, current_IC)>>, buf |-> b1, errors |-> <<>>]
  ELSE [words |-> <<Word(0, current_IC)>>, buf |-> buf, errors |-> <<>>]

\* ------------------------------------------------------------ preprocessor

MACRO_DEF == <<"m","c","r","o">>
MACRO_END == <<"m","c","r","o","e","n","d">>

\* A copy that drops the blanks at both ends of the line and keeps the others
xstrdup_trimmed(str) == sv_trim(str)

\* xstrdup_norm: every run of blanks becomes one space, leading blanks vanish.
\* The loop writes a character that is no blank as it is, and writes a space
\* for a blank when norm_str[j - 1] exists and is no space, which is when the
\* character before the blank is no blank.  Written(str) are the positions of
\* str the loop writes for, Nth(S, k) is the k-th of them.
Written(str) ==
  {i \in 1..Len(str) : ~IsBlank(str[i]) \/ (i > 1 /\ ~IsBlank(str[i - 1]))}

Nth(S, k) == CHOOSE i \in S : Cardinality({j \in S : j <= i}) = k

xstrdup_norm(str) ==
  [k \in 1..Cardinality(Written(str)) |->
     IF IsBlank(str[Nth(Written(str), k)]) THEN SP ELSE str[Nth(Written(str), k)]]

is_comment(sv) == sv_starts_with(sv, <<";">>)
is_empty_line(sv) == Len(sv) = 0
is_macro_def(sv) == sv_starts_with(sv, MACRO_DEF) /\ ~sv_starts_with(sv, MACRO_END)
is_macro_end(sv) == sv_starts_with(sv, MACRO_END)

hash_map_contains(map, key) == hash_map_get(map, key) # NULLV

\* hash_map_put on a map kept as a sequence of [key, value] entries
hash_map_put(map, key, value) ==
  IF \E i \in 1..Len(map) : map[i].key = key
    THEN [i \in 1..Len(map) |->
            IF map[i].key = key THEN [key |-> key, value |-> value] ELSE map[i]]
    ELSE Append(map, [key |-> key, value |-> value])

\* A call by shape alone: every line of a single word, stored or not
is_macro_word(macros, macro_name) == \A i \in 1..Len(macro_name) : macro_name[i] # SP

is_macro_call(macros, macro_name) == hash_map_contains(macros, macro_name)

\* The first position at or after i of s that holds neither NUL nor a space
\* stops the scan of the name; SKIP_WHITESPACE then passes the blanks.
RECURSIVE NameEnd(_, _)
NameEnd(s, i) == IF i <= Len(s) /\ s[i] # SP THEN NameEnd(s, i + 1) ELSE i

CharAt(s, i) == IF i >= 1 /\ i <= Len(s) THEN s[i] ELSE NUL

\* validate_macro.  macro_def and macro_end are the stored (normalised) lines,
\* def_line is DEF_LINE(pp), end_line is pp->line_number, nerrors the size of
\* the error list at the call, beyond the bytes read after the terminator of a
\* definition line that is exactly "mcro".  Result: the errors reported, the
\* name and the validity (no error in the whole list).
validate_macro(macros, nerrors, macro_def, macro_end, def_line, end_line, beyond) ==
  LET macro_name == IF Len(macro_def) >= 5 THEN SubSeq(macro_def, 6, Len(macro_def))
                    ELSE beyond
      e1 == IF CharAt(macro_def, 5) # SP
              THEN <<Err("MCRO_SPACE_MISSING", def_line)>> ELSE <<>>
      afterName == SkipSpace(macro_name, NameEnd(macro_name, 1))
      e2 == IF afterName <= Len(macro_name)
              THEN <<Err("MCRO_DEF_EXTRA", def_line)>> ELSE <<>>
      e3 == IF SkipSpace(macro_end, Len(MACRO_END) + 1) <= Len(macro_end)
              THEN <<Err("MCRO_DEF_EXTRA", end_line)>> ELSE <<>>
      lead == LeftBlanks(macro_name, 1)
      sv == sv_trim(macro_name)
      svstr == SubSeq(macro_name, lead + 1, Len(macro_name))
      e4 == IF Len(sv) = 0 \/ Len(sv) > MAX_MCRO_NAME_LEN
              THEN <<Err("MCRO_NAME", def_line)>> ELSE <<>>
      e5 == IF hash_map_contains(macros, macro_name)
              THEN <<Err("MCRO_NAME", def_line)>> ELSE <<>>
      e6 == IF isdigit(CharAt(svstr, 1)) THEN <<Err("MCRO_NAME", def_line)>> ELSE <<>>
      e7 == IF isupper(CharAt(svstr, 1)) THEN <<Err("MCRO_NAME", def_line)>> ELSE <<>>
      e8 == IF \E i \in 1..Len(sv) :
                 /\ \A j \in 1..i : sv[j] # SP
                 /\ ~isalnum(sv[i]) /\ sv[i] # "_"
              THEN <<Err("MCRO_DEF_EXTRA", def_line)>> ELSE <<>>
      e9 == IF \/ find_instruction(svstr) # NULLV
               \/ find_register(svstr) # NULLV
               \/ is_directive(svstr, Len(sv)) # 0
               \/ sv_ends_with(sv, <<":">>)
              THEN <<Err("MCRO_NAME", def_line)>> ELSE <<>>
      errs == e1 \o e2 \o e3 \o e4 \o e5 \o e6 \o e7 \o e8 \o e9
  IN [errors |-> errs, name |-> macro_name, valid |-> (nerrors + Len(errs) = 0)]

\* array_list_to_str: the lines joined by newlines
RECURSIVE array_list_to_str(_)
array_list_to_str(list) ==
  IF list = <<>> THEN <<>>
  ELSE IF Len(list) = 1 THEN list[1]
  ELSE list[1] \o <<NL>> \o array_list_to_str(Tail(list))

\* The lines expand_macro appends for a macro body: one per newline, and the
\* rest when it is not empty.
RECURSIVE BodyLines(_, _, _)
BodyLines(body, i, cur) ==
  IF i > Len(body) THEN (IF cur = <<>> THEN <<>> ELSE <<cur>>)
  ELSE IF body[i] = NL THEN <<cur>> \o BodyLines(body, i + 1, <<>>)
  ELSE BodyLines(body, i + 1, Append(cur, body[i]))

expand_macro(macros, macro_name) ==
  LET macro_body == hash_map_get(macros, macro_name)
  IN IF macro_body = NULLV THEN <<>> ELSE BodyLines(macro_body.text, 1, <<>>)

\* --------------------------------------------------------------- first pass

\* validate_label: "OK" or the kind of the error it reports
validate_label(sv, symbol_table) ==
  IF Len(sv) = 0 THEN "EMPTY_LABEL"
  ELSE IF Len(sv) > MAX_LABEL_LEN THEN "LABEL_MAX_LEN"
  ELSE IF ~isalpha(sv[1]) THEN "LABEL_NAME_DIG"
  ELSE IF \E i \in 2..Len(sv) : ~isalnum(sv[i]) /\ sv[i] # "_"
    THEN "LABEL_NAME_INVALID_CHAR"
  ELSE IF find_instruction(sv) # NULLV THEN "LABEL_NAME_INSTRUCTION"
  ELSE IF find_register(sv) # NULLV THEN "LABEL_NAME_REGISTER"
  ELSE IF is_directive(sv, Len(sv)) # 0 THEN "LABEL_NAME_DIRECTIVE"
  ELSE IF hash_map_get(symbol_table, sv) # NULLV THEN "LABEL_NAME_DUPLICATE"
  ELSE "OK"

\* validate_address: the errors it reports
validate_address(address, line_number) ==
  IF address > INT21_MAX THEN <<Err("ADD_OUT_OF_BOUNDS", line_number)>> ELSE <<>>

symbol_create(id, tok, address, external, entry) ==
  [id |-> id, line |-> tok.line, start |-> tok.start, len |-> tok.len,
   address |-> address, external |-> external, entry |-> entry]

\* define_symbol on the tokens of one line.  c is the context, buf the line
\* buffer.  Result: the context, the buffer (the name is terminated in place)
\* and whether a null pointer was dereferenced.
define_symbol(c, buf, toks) ==
  LET hasLabel == toks[1].type = "LABEL"
      i0 == IF hasLabel THEN 3 ELSE 2
      dot == i0 <= Len(toks) /\ toks[i0].type = "DOT"
      i == IF dot THEN i0 + 1 ELSE i0
      ttype == IF i <= Len(toks) THEN toks[i].type ELSE "NONE"
      lab == IF hasLabel /\ ~is_entry_statement(toks) /\ ~is_extern_statement(toks)
               THEN validate_label(Lexeme(buf, toks[1]), c.symbol_table)
               ELSE "OK"
      out(cc, b, f) == [ctx |-> cc, buf |-> b, fault |-> f]
      put(cc, b, tok, symbol) ==
        LET b1 == PutNul(b, tok.start + tok.len)
            key == TokStr(b1, tok)
            old == hash_map_get(cc.symbol_table, key)
        IN out([cc EXCEPT !.symbol_table = hash_map_put(@, key, symbol),
                          !.freed = IF old = NULLV THEN @ ELSE @ \cup {old.id}],
               b1, FALSE)
  IN IF lab # "OK"
       THEN out([c EXCEPT !.errors = Append(@, Err(lab, c.line_number))], buf, FALSE)
     ELSE IF ttype \in {"INSTRUCTION", "DIR_DATA", "DIR_STRING"}
       THEN IF ~hasLabel THEN out(c, buf, FALSE)
            ELSE put([c EXCEPT !.errors = @ \o validate_address(c.IC, c.line_number)],
                     buf, toks[1],
                     symbol_create(c.line_number, toks[1], c.IC, FALSE, FALSE))
     ELSE IF ttype = "DIR_EXTERN"
       THEN IF i + 1 > Len(toks) \/ toks[i + 1].start = 0 THEN out(c, buf, TRUE)
            ELSE LET symbol == symbol_create(c.line_number, toks[i + 1], 0, TRUE, FALSE)
                     r == put(c, buf, toks[i + 1], symbol)
                 IN out([r.ctx EXCEPT !.extern_names = Append(@, symbol)], r.buf, FALSE)
     ELSE IF ttype = "DIR_ENTRY"
       THEN IF i + 1 > Len(toks) THEN out(c, buf, TRUE)
            ELSE out([c EXCEPT !.entry_names =
                        Append(@, symbol_create(c.line_number, toks[i + 1], 0, FALSE, TRUE))],
                     buf, FALSE)
     ELSE out(c, buf, FALSE)

\* The context once line n is tokenized: the tokens join ctx->tokens
Lexed(c, n, lx) ==
  [c EXCEPT !.lexer_line = n, !.tokens = @ \o lx.toks, !.errors = @ \o lx.errors]

NoInstruction(buf, fault) ==
  [ins |-> parsed_instruction_init, errors |-> <<>>, buf |-> buf, fault |-> fault]

NoDirective(buf, fault) ==
  [dir |-> parsed_directive_init, errors |-> <<>>, buf |-> buf, fault |-> fault]

\* What an iteration of first_pass saw: the line, its text and tokens, the
\* statement parsed, the IC it started at and the errors it added
FirstPassSeen(c, n, toks, ds, pi, pd, c2) ==
  [line |-> n, text |-> c.preprocessed_lines[n], toks |-> toks,
   is_instruction |-> ~ds.fault /\ is_instruction_statement(toks),
   is_directive |-> ~pi.fault /\ is_directive_statement(toks),
   ins |-> pi.ins, dir |-> pd.dir, IC |-> ds.ctx.IC,
   errors |-> SubSeq(c2.errors, Len(c.errors) + 1, Len(c2.errors))]

\* The end of an iteration of first_pass: the counters advance, the statement
\* that is neither an instruction nor a directive is an error
FirstPassCount(n, toks, ds, pi, pd) ==
  [ds.ctx EXCEPT
     !.IC = @ + pi.ins.code_word_count + pd.dir.code_word_count,
     !.DC = @ + pd.dir.code_word_count,
     !.errors = @ \o pi.errors \o pd.errors
                  \o (IF /\ ~is_instruction_statement(toks)
                         /\ ~is_directive_statement(toks)
                         /\ ~pd.fault
                        THEN <<Err("INVALID_STATEMENT", n)>> ELSE <<>>),
     !.preprocessed_lines[n] = pd.buf,
     !.line_number = IF pd.fault THEN @ ELSE @ + 1]

FirstPassResult(c, n, toks, ds, pi, pd, c2) ==
  [ctx |-> c2, fault |-> pd.fault, seen |-> FirstPassSeen(c, n, toks, ds, pi, pd, c2)]

FirstPassDirective(c, n, toks, ds, pi, pd) ==
  FirstPassResult(c, n, toks, ds, pi, pd, FirstPassCount(n, toks, ds, pi, pd))

FirstPassInstruction(c, n, toks, ds, pi) ==
  FirstPassDirective(c, n, toks, ds, pi,
    IF ~pi.fault /\ is_directive_statement(toks) THEN parse_directive(pi.buf, toks)
    ELSE NoDirective(pi.buf, pi.fault))

FirstPassSymbol(c, n, toks, ds) ==
  FirstPassInstruction(c, n, toks, ds,
    IF ~ds.fault /\ is_instruction_statement(toks)
      THEN parse_instruction(ds.buf, toks, ds.ctx.line_number, 1)
      ELSE NoInstruction(ds.buf, ds.fault))

FirstPassTokens(c, n, lx) ==
  FirstPassSymbol(c, n, lx.toks,
    IF is_label_statement(lx.toks) \/ is_entry_statement(lx.toks)
       \/ is_extern_statement(lx.toks)
      THEN define_symbol(Lexed(c, n, lx), c.preprocessed_lines[n], lx.toks)
      ELSE [ctx |-> Lexed(c, n, lx), buf |-> c.preprocessed_lines[n], fault |-> FALSE])

\* One iteration of the loop of first_pass, for the line the lexer is at
\* (c.lexer_line is lexer.line_number before lexer_next_line): the line is
\* tokenized, its symbol defined, and it is parsed as an instruction and as a
\* directive.  Result: the context after the iteration, whether the process
\* faulted in it, and what the iteration saw.
first_pass_line(c) ==
  FirstPassTokens(c, c.lexer_line + 1,
    lexer_tokenize_line(c.preprocessed_lines[c.lexer_line + 1], c.lexer_line + 1))

\* -------------------------------------------------------------- second pass

\* get_line: the tokens of ctx->tokens that belong to line n, in order
get_line(tokens, n) == SelectSeq(tokens, LAMBDA t : t.line = n)

\* The comparison of process_token with the name of the i-th listed symbol.
\* A listed symbol that hash_map_put has freed is read after its release: the
\* read yields whatever dangling says ("equal", "differs" or "fault").
NameMatches(c, str, list_symbol, dangling) ==
  IF list_symbol.id \in c.freed THEN dangling = "equal"
  ELSE list_symbol.start # 0
       /\ str = CStr(c.preprocessed_lines[list_symbol.line], list_symbol.start)

NameFaults(c, names_list, k, dangling) ==
  \/ names_list[k].id \in c.freed /\ dangling = "fault"
  \/ names_list[k].id \notin c.freed /\ names_list[k].start = 0

\* process_token.  Result: the context and whether the process faulted.
process_token(c, token, address, is_extern, dangling) ==
  LET names_list == IF is_extern THEN c.extern_names ELSE c.entry_names
      n == token.line
      c1 == [c EXCEPT !.preprocessed_lines[n] = PutNul(@, token.start + token.len)]
      str == TokStr(c1.preprocessed_lines[n], token)
      hits == {k \in 1..Len(names_list) :
                 NameMatches(c1, str, names_list[k], dangling)
                 \/ NameFaults(c1, names_list, k, dangling)}
      first == CHOOSE k \in hits : \A j \in hits : k <= j
      symbol == hash_map_get(c1.symbol_table, str)
      record == [name |-> Lexeme(c1.preprocessed_lines[n], token),
                 address |-> IF is_extern THEN address ELSE symbol.address]
  IN IF token.start = 0 THEN [ctx |-> c, fault |-> TRUE]
     ELSE IF hits = {} THEN [ctx |-> c1, fault |-> FALSE]
     ELSE IF NameFaults(c1, names_list, first, dangling) THEN [ctx |-> c1, fault |-> TRUE]
     ELSE IF symbol = NULLV THEN [ctx |-> c1, fault |-> FALSE]
     ELSE IF is_extern
       THEN [ctx |-> [c1 EXCEPT !.externals = Append(@, record)], fault |-> FALSE]
     ELSE [ctx |-> [c1 EXCEPT !.entries = Append(@, record)], fault |-> FALSE]

\* process_token for the entries, after the one for the externals gave r1
LogEntries(r1, token, address, is_entries, dangling) ==
  IF is_entries /\ ~r1.fault
    THEN process_token(r1.ctx, token, address, FALSE, dangling) ELSE r1

\* process_token for the externals and then for the entries, as log_symbol
\* calls it for one token
LogToken(r, token, address, is_externs, is_entries, dangling) ==
  LogEntries(IF is_externs /\ ~r.fault
               THEN process_token(r.ctx, token, address, TRUE, dangling) ELSE r,
             token, address, is_entries, dangling)

\* log_symbol for the target operand
LogTarget(r2, toks, ins, IC, is_externs, is_entries, dangling) ==
  IF ins.rt # 0 /\ toks[ins.rt].type = "IDENTIFIER"
    THEN LogToken(r2, toks[ins.rt],
                  IF ins.rs # 0 /\ toks[ins.rs].type \in {"IMM", "IDENTIFIER"}
                    THEN IC + 2 ELSE IC + 1,
                  is_externs, is_entries, dangling)
    ELSE r2

\* log_symbol for the source operand and then the target operand
LogSource(r1, toks, ins, IC, is_externs, is_entries, dangling) ==
  LogTarget(IF ins.rs # 0 /\ toks[ins.rs].type = "IDENTIFIER"
              THEN LogToken(r1, toks[ins.rs], IC + 1, is_externs, is_entries, dangling)
              ELSE r1,
            toks, ins, IC, is_externs, is_entries, dangling)

\* log_symbol
log_symbol(c, toks, ins, IC, is_externs, is_entries, dangling) ==
  LogSource(IF is_label_statement(toks)
              THEN LogToken([ctx |-> c, fault |-> FALSE], toks[1], IC,
                            is_externs, is_entries, dangling)
              ELSE [ctx |-> c, fault |-> FALSE],
            toks, ins, IC, is_externs, is_entries, dangling)

\* The extra word of one operand joins the words encoded so far
ExtraWordJoin(st, e) ==
  [buf |-> e.buf, words |-> st.words \o e.words,
   errors |-> st.errors \o e.errors, IC |-> st.IC + 1]

\* The step of encode_instruction for one operand
ExtraWord(st, toks, operand, add_mode, symbol_table, line_number) ==
  IF operand # 0 /\ toks[operand].type \in {"IMM", "IDENTIFIER"}
    THEN ExtraWordJoin(st, encode_operand_extra(st.buf, toks[operand], symbol_table,
                                                add_mode, st.IC, line_number))
    ELSE st

\* The end of encode_instruction: the words join the code image
EncodedInstruction(c, n, s2) ==
  [ctx |-> [c EXCEPT !.preprocessed_lines[n] = s2.buf,
                     !.code_img = @ \o s2.words,
                     !.errors = @ \o s2.errors],
   IC |-> s2.IC, fault |-> FALSE]

EncodeOperands(c, toks, ins, IC, fw) ==
  IF fw.fault THEN [ctx |-> c, IC |-> IC, fault |-> TRUE]
  ELSE EncodedInstruction(c, toks[1].line,
         ExtraWord(ExtraWord([buf |-> fw.buf, words |-> fw.words,
                              errors |-> <<>>, IC |-> IC + 1],
                             toks, ins.rs, ins.rs_add_mode,
                             c.symbol_table, c.line_number),
                   toks, ins.rt, ins.rt_add_mode, c.symbol_table, c.line_number))

\* encode_instruction.  Result: the context (code image, errors, buffers), the
\* second pass's IC and whether the process faulted.
encode_instruction(c, toks, ins, IC) ==
  EncodeOperands(c, toks, ins, IC,
    encode_first_word(c.preprocessed_lines[toks[1].line], toks, ins, IC))

\* The words encode_data appends for the tokens i.. of a .data statement
RECURSIVE DataWords(_, _, _, _)
DataWords(buf, toks, i, IC) ==
  IF i > Len(toks) THEN [words |-> <<>>, errors |-> <<>>]
  ELSE IF toks[i].type = "IMM"
    THEN LET value == atoi(TokStr(buf, toks[i]))
             rest == DataWords(buf, toks, i + 1, IC + 1)
         IN [words |-> <<Word(data_from_immediate(value), IC)>> \o rest.words,
             errors |-> (IF value > INT21_MAX \/ value < INT21_MIN
                           THEN <<Err("IMM_OUT_OF_BOUNDS", toks[i].line)>> ELSE <<>>)
                        \o rest.errors]
  ELSE DataWords(buf, toks, i + 1, IC)

\* encode_data.  Result: the context (data image, errors, buffers), the second
\* pass's IC and DC and whether the process faulted.
encode_data(c, toks, IC, DC) ==
  LET n == toks[1].line
      buf == c.preprocessed_lines[n]
      i == IF toks[1].type = "LABEL" THEN 4 ELSE 2
      out(cc, k, f) == [ctx |-> cc, IC |-> IC + k, DC |-> DC + k, fault |-> f]
  IN IF i > Len(toks) THEN out(c, 0, TRUE)
     ELSE IF toks[i].type = "DIR_DATA"
       THEN LET d == DataWords(buf, toks, i, IC)
            IN out([c EXCEPT !.data_img = @ \o d.words, !.errors = @ \o d.errors],
                   Len(d.words), FALSE)
     ELSE IF toks[i].type = "DIR_STRING"
       THEN IF i + 2 > Len(toks) \/ toks[i + 2].start = 0 THEN out(c, 0, TRUE)
            ELSE
              LET token == toks[i + 2]
                  b1 == PutNul(buf, token.start + token.len)
                  str == TokStr(b1, token)
                  words == [k \in 1..(Len(str) + 1) |->
                              IF k <= Len(str)
                                THEN Word(data_from_immediate(CharCode(str[k])), IC + k - 1)
                                ELSE Word(0, IC + k - 1)]
              IN out([c EXCEPT !.preprocessed_lines[n] = b1,
                               !.data_img = @ \o words],
                     Len(words), FALSE)
     ELSE out(c, 0, FALSE)

\* What an iteration of second_pass saw: the line, its text and tokens, the
\* statement parsed, the IC it started at and the words it emitted
SecondPassSeen(c, s, n, line, pi, ei, ed) ==
  [line |-> n,
   text |-> IF n <= Len(c.preprocessed_lines) THEN c.preprocessed_lines[n] ELSE <<>>,
   toks |-> line, is_instruction |-> is_instruction_statement(line),
   is_directive |-> ~ei.fault /\ is_directive_statement(line),
   ins |-> pi.ins, IC |-> s.IC,
   words |-> SubSeq(ed.ctx.code_img, Len(c.code_img) + 1, Len(ed.ctx.code_img)),
   data |-> SubSeq(ed.ctx.data_img, Len(c.data_img) + 1, Len(ed.ctx.data_img))]

SecondPassResult(c, s, n, line, pi, ei, ed) ==
  [ctx |-> ed.ctx, sp |-> [s EXCEPT !.IC = ed.IC, !.DC = ed.DC],
   fault |-> ed.fault, seen |-> SecondPassSeen(c, s, n, line, pi, ei, ed)]

\* The context once the directive of line n is parsed
SecondPassDirected(n, line, ei, pd) ==
  IF ~ei.fault /\ is_directive_statement(line)
    THEN [ei.ctx EXCEPT !.errors = @ \o pd.errors, !.preprocessed_lines[n] = pd.buf]
    ELSE ei.ctx

SecondPassData(c, s, n, line, pi, ei, pd) ==
  SecondPassResult(c, s, n, line, pi, ei,
    IF ~ei.fault /\ is_directive_statement(line) /\ ~pd.fault
      THEN encode_data(SecondPassDirected(n, line, ei, pd), line, ei.IC, s.DC)
      ELSE [ctx |-> SecondPassDirected(n, line, ei, pd), IC |-> ei.IC,
            DC |-> s.DC, fault |-> pd.fault])

SecondPassDirective(c, s, n, line, pi, ei) ==
  SecondPassData(c, s, n, line, pi, ei,
    IF ~ei.fault /\ is_directive_statement(line)
      THEN parse_directive(ei.ctx.preprocessed_lines[n], line)
      ELSE NoDirective(<<>>, ei.fault))

SecondPassEncode(c, s, n, line, pi, ls) ==
  SecondPassDirective(c, s, n, line, pi,
    IF is_instruction_statement(line) /\ ~ls.fault
      THEN encode_instruction(ls.ctx, line, pi.ins, s.IC)
      ELSE [ctx |-> ls.ctx, IC |-> s.IC, fault |-> ls.fault])

\* The context once the instruction of line n is parsed
SecondPassParsed(c, n, pi) ==
  [c EXCEPT !.line_number = n + 1, !.errors = @ \o pi.errors]

SecondPassLog(c, s, dangling, n, line, pi) ==
  SecondPassEncode(c, s, n, line, pi,
    IF /\ is_instruction_statement(line)
       /\ \/ pi.ins.rs # 0 /\ line[pi.ins.rs].type = "IDENTIFIER"
          \/ pi.ins.rt # 0 /\ line[pi.ins.rt].type = "IDENTIFIER"
          \/ is_label_statement(line)
      THEN log_symbol(SecondPassParsed(c, n, pi), line, pi.ins, s.IC,
                      s.is_externs, s.is_entries, dangling)
      ELSE [ctx |-> SecondPassParsed(c, n, pi), fault |-> FALSE])

SecondPassTokens(c, s, dangling, n, line) ==
  SecondPassLog(c, s, dangling, n, line,
    IF is_instruction_statement(line)
      THEN parse_instruction(c.preprocessed_lines[n], line, n + 1, 2)
      ELSE NoInstruction(<<>>, FALSE))

\* One iteration of the loop of second_pass.  s holds the locals of
\* second_pass (IC, DC, is_externs, is_entries, max_line_number).
second_pass_line(c, s, dangling) ==
  SecondPassTokens(c, s, dangling, c.line_number, get_line(c.tokens, c.line_number))

\* ------------------------------------------------------------------- output

NoFiles == [am |-> NULLV, ob |-> NULLV, ent |-> NULLV, ext |-> NULLV]

\* generate_output: the files after the call.  The object file carries its
\* header (code size, data size) and the words of both images.
generate_output(c, mode, fs) ==
  LET f1 == IF mode = 0 THEN [fs EXCEPT !.am = [lines |-> c.preprocessed_lines]]
            ELSE fs
      f2 == IF Len(c.code_img) # 0
              THEN [f1 EXCEPT !.ob = [code |-> c.IC - INITIAL_IC - c.DC,
                                      data |-> c.DC,
                                      words |-> c.code_img \o c.data_img]]
              ELSE f1
      f3 == IF Len(c.entries) # 0 THEN [f2 EXCEPT !.ent = [symbols |-> c.entries]]
            ELSE f2
  IN IF Len(c.externals) # 0 THEN [f3 EXCEPT !.ext = [symbols |-> c.externals]]
     ELSE f3

\* ------------------------------------------------------------------- state

VARIABLES
  source,    \* the .as file: whether it can be read, and its lines
  pp,        \* the Preprocessor: line_number, state, current_macro, macros
  ctx,       \* the AssemblerContext, with the lexer's line_number and the
             \* symbols hash_map_put has freed
  sp,        \* the locals of second_pass
  pc,        \* where assemble() is
  files,     \* the output files written
  reported,  \* the errors error_report_all has printed
  trace      \* history: the stages begun and what each pass saw on each line

vars == <<source, pp, ctx, sp, pc, files, reported, trace>>

asm_ctx_init ==
  [errors |-> <<>>, line_number |-> 0, preprocessed_lines |-> <<>>,
   tokens |-> <<>>, symbol_table |-> <<>>, code_img |-> <<>>, data_img |-> <<>>,
   entries |-> <<>>, externals |-> <<>>, entry_names |-> <<>>,
   extern_names |-> <<>>, IC |-> INITIAL_IC, DC |-> 0,
   lexer_line |-> 0, freed |-> {}]

preprocessor_init ==
  [line_number |-> 0, state |-> "STATE_DEFAULT", current_macro |-> <<>>,
   macros |-> <<>>]

\* The state in which assemble() starts on the file src
InitFor(src) ==
  /\ source = src
  /\ pp = preprocessor_init
  /\ ctx = asm_ctx_init
  /\ sp = [IC |-> INITIAL_IC, DC |-> 0, is_externs |-> FALSE, is_entries |-> FALSE,
           max_line_number |-> 0]
  /\ pc = "start"
  /\ files = NoFiles
  /\ reported = <<>>
  /\ trace = [stages |-> <<>>, left |-> <<>>, first |-> <<>>, second |-> <<>>]

\* ------------------------------------------------------------------ actions

\* What a read past the end of a definition line that is exactly "mcro" finds
Beyond == {<<>>, <<"X">>}

\* What the comparison with a freed symbol's name yields
Dangling == {"equal", "differs", "fault"}

Begin(stage) == [trace EXCEPT !.stages = Append(@, stage)]

\* The error list as the stage that returns leaves it
Leave(errors) == [trace EXCEPT !.left = Append(@, errors)]

\* define_macro: the preprocessor and the error list after it
define_macro(p, errors, beyond) ==
  LET macro_def == p.current_macro[1]
      macro_end == p.current_macro[Len(p.current_macro)]
      body == SubSeq(p.current_macro, 2, Len(p.current_macro) - 1)
      v == validate_macro(p.macros, Len(errors), macro_def, macro_end,
                          p.line_number - Len(body) - 1, p.line_number, beyond)
  IN [pp |-> [p EXCEPT !.current_macro = <<>>,
                       !.macros = IF v.valid
                                    THEN hash_map_put(@, v.name,
                                                      [text |-> array_list_to_str(body)])
                                    ELSE @],
      errors |-> errors \o v.errors]

\* preprocess, up to the loop: the file is read
PreprocessBegin ==
  /\ pc = "start"
  /\ IF source.readable
       THEN /\ pc' = "preprocess"
            /\ ctx' = ctx
            /\ trace' = Begin("preprocess")
       ELSE /\ pc' = "check_preprocess"
            /\ ctx' = [ctx EXCEPT !.errors = Append(@, Err("FILE_READ", 0))]
            /\ trace' = [Begin("preprocess") EXCEPT
                           !.left = Append(@, <<Err("FILE_READ", 0)>>)]
  /\ UNCHANGED <<source, pp, sp, files, reported>>

\* One iteration of the loop of preprocess: next_line and the state machine
PreprocessLine ==
  /\ pc = "preprocess"
  /\ pp.line_number < Len(source.lines)
  /\ \E beyond \in Beyond :
       LET n == pp.line_number + 1
           raw == source.lines[n]
           long == IF Len(raw) > MAX_LINE_LEN THEN <<Err("MAX_LINE_LEN", n)>> ELSE <<>>
           current_line == sv_trim(raw)
           str == SubSeq(raw, LeftBlanks(raw, 1) + 1, Len(raw))
           p1 == [pp EXCEPT !.line_number = n]
           c1 == [ctx EXCEPT !.errors = @ \o long]
       IN IF is_empty_line(current_line) \/ is_comment(current_line)
            THEN pp' = p1 /\ ctx' = c1
          ELSE IF pp.state = "STATE_DEFAULT"
            THEN IF is_macro_def(current_line)
                   THEN /\ pp' = [p1 EXCEPT !.state = "STATE_MACRO",
                                            !.current_macro = Append(@, xstrdup_norm(str))]
                        /\ ctx' = c1
                 ELSE IF is_macro_call(pp.macros, str)
                   THEN /\ pp' = p1
                        /\ ctx' = [c1 EXCEPT !.preprocessed_lines =
                                               @ \o expand_macro(pp.macros, str)]
                 ELSE /\ pp' = p1
                      /\ ctx' = [c1 EXCEPT !.preprocessed_lines =
                                             Append(@, xstrdup_norm(str))]
          ELSE IF is_macro_end(current_line)
            THEN LET d == define_macro(
                            [p1 EXCEPT !.state = "STATE_DEFAULT",
                                       !.current_macro = Append(@, xstrdup_norm(str))],
                            c1.errors, beyond)
                 IN pp' = d.pp /\ ctx' = [c1 EXCEPT !.errors = d.errors]
          ELSE /\ pp' = [p1 EXCEPT !.current_macro = Append(@, xstrdup_norm(str))]
               /\ ctx' = c1
  /\ UNCHANGED <<source, sp, pc, files, reported, trace>>

\* preprocess, after the loop: the .am file when the error list is empty
PreprocessEnd ==
  /\ pc = "preprocess"
  /\ pp.line_number >= Len(source.lines)
  /\ files' = IF ctx.errors = <<>> THEN generate_output(ctx, 0, files) ELSE files
  /\ pc' = "check_preprocess"
  /\ trace' = Leave(ctx.errors)
  /\ UNCHANGED <<source, pp, ctx, sp, reported>>

\* assemble without the test of the error list: the next stage is entered
\* whatever the stage before it left
AssembleUnchecked(at, next) ==
  /\ pc = at
  /\ pc' = next
  /\ UNCHANGED <<reported, ctx, source, pp, sp, files, trace>>

\* assemble: the check of the error list after a stage.  With errors they are
\* reported (which clears the list) and the file is done; without, the next
\* stage is entered.
AssembleCheck(at, next) ==
  /\ pc = at
  /\ IF Len(ctx.errors) > 0
       THEN /\ reported' = reported \o ctx.errors
            /\ ctx' = [ctx EXCEPT !.errors = <<>>]
            /\ pc' = "done"
       ELSE /\ pc' = next
            /\ UNCHANGED <<reported, ctx>>
  /\ UNCHANGED <<source, pp, sp, files, trace>>

AssembleAfterPreprocess == AssembleCheck("check_preprocess", "first_pass_begin")
AssembleAfterFirstPass == AssembleCheck("check_first_pass", "second_pass_begin")
AssembleAfterSecondPass == AssembleCheck("check_second_pass", "done")

\* first_pass, up to the loop
FirstPassBegin ==
  /\ pc = "first_pass_begin"
  /\ ctx' = [ctx EXCEPT !.line_number = 1, !.lexer_line = 0]
  /\ trace' = Begin("first_pass")
  /\ pc' = "first_pass"
  /\ UNCHANGED <<source, pp, sp, files, reported>>

\* One iteration of the loop of first_pass
FirstPassLine ==
  /\ pc = "first_pass"
  /\ ctx.lexer_line < Len(ctx.preprocessed_lines)
  /\ LET r == first_pass_line(ctx)
     IN /\ ctx' = r.ctx
        /\ pc' = IF r.fault THEN "fault" ELSE "first_pass"
        /\ trace' = [trace EXCEPT !.first = Append(@, r.seen)]
  /\ UNCHANGED <<source, pp, sp, files, reported>>

\* first_pass, after the loop
FirstPassEnd ==
  /\ pc = "first_pass"
  /\ ctx.lexer_line >= Len(ctx.preprocessed_lines)
  /\ pc' = "check_first_pass"
  /\ trace' = Leave(ctx.errors)
  /\ UNCHANGED <<source, pp, ctx, sp, files, reported>>

\* second_pass, up to the loop: the last token's line is read through the
\* pointer array_list_get returns, which is null for an empty token list
SecondPassBegin ==
  /\ pc = "second_pass_begin"
  /\ trace' = Begin("second_pass")
  /\ IF Len(ctx.tokens) = 0
       THEN /\ pc' = "fault"
            /\ UNCHANGED <<ctx, sp>>
       ELSE /\ pc' = "second_pass"
            /\ ctx' = [ctx EXCEPT !.line_number = 1]
            /\ sp' = [IC |-> INITIAL_IC, DC |-> 0,
                      is_externs |-> Len(ctx.extern_names) # 0,
                      is_entries |-> Len(ctx.entry_names) # 0,
                      max_line_number |-> ctx.tokens[Len(ctx.tokens)].line + 1]
  /\ UNCHANGED <<source, pp, files, reported>>

\* One iteration of the loop of second_pass
SecondPassLine ==
  /\ pc = "second_pass"
  /\ ctx.line_number <= sp.max_line_number
  /\ \E dangling \in Dangling :
       LET r == second_pass_line(ctx, sp, dangling)
       IN /\ ctx' = r.ctx
          /\ sp' = r.sp
          /\ pc' = IF r.fault THEN "fault" ELSE "second_pass"
          /\ trace' = [trace EXCEPT !.second = Append(@, r.seen)]
  /\ UNCHANGED <<source, pp, files, reported>>

\* second_pass, after the loop: the output files when the error list is empty
SecondPassEnd ==
  /\ pc = "second_pass"
  /\ ctx.line_number > sp.max_line_number
  /\ files' = IF Len(ctx.errors) = 0 THEN generate_output(ctx, 2, files) ELSE files
  /\ pc' = "check_second_pass"
  /\ trace' = Leave(ctx.errors)
  /\ UNCHANGED <<source, pp, ctx, sp, reported>>

Next ==
  \/ PreprocessBegin
  \/ PreprocessLine
  \/ PreprocessEnd
  \/ AssembleAfterPreprocess
  \/ FirstPassBegin
  \/ FirstPassLine
  \/ FirstPassEnd
  \/ AssembleAfterFirstPass
  \/ SecondPassBegin
  \/ SecondPassLine
  \/ SecondPassEnd
  \/ AssembleAfterSecondPass

\* ------------------------------------------------------------------ inputs

\* Source lines, one character per element
Line_stop == <<"s", "t", "o", "p">>
Line_extern_W == <<".", "e", "x", "t", "e", "r", "n", SP, "W">>
Line_entry_L == <<".", "e", "n", "t", "r", "y", SP, "L">>
Line_L_data == <<"L", ":", SP, ".", "d", "a", "t", "a", SP, "5">>
Line_L_jmp_L == <<"L", ":", SP, "j", "m", "p", SP, "L">>
Line_L_jmp_amp_L == <<"L", ":", SP, "j", "m", "p", SP, "&", "L">>
Line_jmp_amp_W == <<"j", "m", "p", SP, "&", "W">>
Line_W_stop == <<"W", ":", SP, "s", "t", "o", "p">>
Line_cmp_W_W == <<"c", "m", "p", SP, "W", ",", SP, "W">>
Line_mov_r1_W == <<"m", "o", "v", SP, "r", "1", ",", SP, "W">>
Line_jmp_amp_r1 == <<"j", "m", "p", SP, "&", "r", "1">>
Line_comma_mov == <<",", "m", "o", "v", SP, "r", "7">>
Line_string_X_Y == <<".", "s", "t", "r", "i", "n", "g", SP, "\"", "X", SP, "Y", "\"">>
Line_jmp_Q == <<"j", "m", "p", SP, "Q">>
Line_mov_imm == <<"m", "o", "v", SP, "#", "5", ",", SP, "r", "1">>
Line_data_none == <<".", "d", "a", "t", "a">>
Line_mcro_m == <<"m", "c", "r", "o", SP, "m">>
Line_mcroend == <<"m", "c", "r", "o", "e", "n", "d">>
Line_m == <<"m">>
Line_prn_5 == <<"p", "r", "n", SP, "#", "5">>
Line_prn_neg1 == <<"p", "r", "n", SP, "#", "-", "1">>
Line_prn_max == <<"p", "r", "n", SP, "#", "1", "0", "4", "8", "5", "7", "5">>
Line_prn_over == <<"p", "r", "n", SP, "#", "1", "0", "4", "8", "5", "7", "6">>
Line_prn_min == <<"p", "r", "n", SP, "#", "-", "1", "0", "4", "8", "5", "7", "6">>
Line_prn_under == <<"p", "r", "n", SP, "#", "-", "1", "0", "4", "8", "5", "7", "7">>
Line_cmp_r1_imm == <<"c", "m", "p", SP, "r", "1", ",", SP, "#", "-", "2">>
Line_data_5 == <<".", "d", "a", "t", "a", SP, "5">>
Line_data_two == <<".", "d", "a", "t", "a", SP, "7", ",", SP, "-", "1">>
Line_data_max == <<".", "d", "a", "t", "a", SP, "1", "0", "4", "8", "5", "7", "5">>
Line_data_max1 == <<".", "d", "a", "t", "a", SP, "1", "0", "4", "8", "5", "7", "4">>
Line_data_over == <<".", "d", "a", "t", "a", SP, "1", "0", "4", "8", "5", "7", "6">>
Line_data_min == <<".", "d", "a", "t", "a", SP, "-", "1", "0", "4", "8", "5", "7", "6">>
Line_data_under == <<".", "d", "a", "t", "a", SP, "-", "1", "0", "4", "8", "5", "7", "7">>

\* A comment one character longer than MAX_LINE_LEN
Line_long_comment == [i \in 1..(MAX_LINE_LEN + 1) |-> ";"]

\* Statements of every shape: labels, externals, entries, operands of each
\* addressing mode, strings, and lines that fail in each stage
Catalogue ==
  {Line_stop, Line_extern_W, Line_entry_L, Line_L_data, Line_L_jmp_L,
   Line_W_stop, Line_cmp_W_W, Line_mov_r1_W, Line_jmp_amp_r1, Line_comma_mov,
   Line_string_X_Y, Line_jmp_Q, Line_mov_imm, Line_data_none, Line_long_comment,
   Line_L_jmp_amp_L, Line_jmp_amp_W}

\* Immediates and data values at and around the ends of the 21-bit range
Numbers ==
  {Line_stop, Line_mov_imm, Line_prn_5, Line_prn_neg1, Line_prn_max,
   Line_prn_over, Line_prn_min, Line_prn_under, Line_cmp_r1_imm, Line_data_5,
   Line_data_two, Line_data_max, Line_data_max1, Line_data_over, Line_data_min,
   Line_data_under}

\* A file that defines a macro and calls it
MacroFile == <<Line_mcro_m, Line_stop, Line_mcroend, Line_m>>

\* A file that refers to an unknown symbol and declares an external twice
UnknownAndExterns == <<Line_jmp_Q, Line_extern_W, Line_extern_W>>

\* The files of at most n lines drawn from the set S
RECURSIVE FilesUpTo(_, _)
FilesUpTo(S, n) ==
  IF n = 0 THEN {<<>>}
  ELSE LET shorter == FilesUpTo(S, n - 1)
       IN shorter \cup {Append(f, l) : f \in shorter, l \in S}

Readable(fs) == {[readable |-> TRUE, lines |-> f] : f \in fs}
Unreadable == [readable |-> FALSE, lines |-> <<>>]

Init ==
  \E src \in Readable(FilesUpTo(Catalogue, MaxLines) \cup {MacroFile, UnknownAndExterns})
              \cup {Unreadable} :
    InitFor(src)

InitNum ==
  \E src \in Readable(FilesUpTo(Numbers, MaxLines)) \cup {Unreadable} : InitFor(src)

Spec == Init /\ [][Next]_vars

SpecNum == InitNum /\ [][Next]_vars

\* Label definitions: names at the length limit, reserved and malformed
\* names, and statements that carry a token the lexer types as a directive;
\* directives without a value or a name
Name31 == [i \in 1..MAX_LABEL_LEN |-> "a"]
Name32 == [i \in 1..(MAX_LABEL_LEN + 1) |-> "a"]
Tail_stop == <<":", SP, "s", "t", "o", "p">>
Line_a31_stop == Name31 \o Tail_stop
Line_a32_stop == Name32 \o Tail_stop
Line_a32_stop_e == Name32 \o Tail_stop \o <<SP, "e">>
Line_1L_stop == <<"1", "L">> \o Tail_stop
Line_1L_stop_e == <<"1", "L">> \o Tail_stop \o <<SP, "e">>
Line_mov_stop == <<"m", "o", "v">> \o Tail_stop
Line_r1_stop == <<"r", "1">> \o Tail_stop
Line_a_1_stop == <<"a", "_", "1">> \o Tail_stop
Line_a_b_stop == <<"a", "-", "b">> \o Tail_stop
Line_L_stop_e == <<"L">> \o Tail_stop \o <<SP, "e">>
Line_entry_none == <<".", "e", "n", "t", "r", "y">>
Line_extern_none == <<".", "e", "x", "t", "e", "r", "n">>

Labels ==
  {Line_stop, Line_a31_stop, Line_a32_stop, Line_a32_stop_e, Line_1L_stop,
   Line_1L_stop_e, Line_mov_stop, Line_r1_stop, Line_a_1_stop, Line_a_b_stop,
   Line_L_stop_e, Line_L_jmp_L, Line_L_data, Line_W_stop, Line_extern_W,
   Line_data_none, Line_entry_none, Line_extern_none}

InitLabel ==
  \E src \in Readable(FilesUpTo(Labels, MaxLines)) \cup {Unreadable} : InitFor(src)

SpecLabel == InitLabel /\ [][Next]_vars

\* The first pass at a statement that defines a label, with the instruction
\* counter at A: the counter after A - INITIAL_IC words of earlier statements.
\* The addresses lie around the start of the code image and around the two
\* limits of isa.h.
AddrSpan == 10

Addresses ==
  (INITIAL_IC .. (INITIAL_IC + AddrSpan))
    \cup ((INT21_MAX - AddrSpan) .. (INT21_MAX + AddrSpan))
    \cup ((UINT24_MAX - AddrSpan) .. (UINT24_MAX + AddrSpan))

InitAddr ==
  \E A \in Addresses : \E line \in {Line_W_stop, Line_L_data} :
    /\ source = [readable |-> TRUE, lines |-> <<line>>]
    /\ pp = [preprocessor_init EXCEPT !.line_number = 1]
    /\ ctx = [asm_ctx_init EXCEPT !.preprocessed_lines = <<xstrdup_norm(line)>>,
                                  !.line_number = 1, !.IC = A]
    /\ sp = [IC |-> INITIAL_IC, DC |-> 0, is_externs |-> FALSE,
             is_entries |-> FALSE, max_line_number |-> 0]
    /\ pc = "first_pass"
    /\ files = NoFiles
    /\ reported = <<>>
    /\ trace = [stages |-> <<"preprocess", "first_pass">>, left |-> <<<<>>>>,
                first |-> <<>>, second |-> <<>>]

NextAddr == FirstPassLine \/ FirstPassEnd

SpecAddr == InitAddr /\ [][NextAddr]_vars

\* Lines for the preprocessor: blanks, comments, lines at the length limit,
\* and macro definitions and calls with and without blanks around the name
Line_comment == <<";", "c">>
Line_empty == <<>>
Line_blank == <<SP, TAB>>
Line_tab_stop == <<TAB>> \o Line_stop
Line_stop_sp == Line_stop \o <<SP>>
Line_W_wide == <<"W", ":", TAB, SP, "s", "t", "o", "p">>
Line_stop_80 == <<"W", ":">> \o [i \in 1..(MAX_LINE_LEN - 7) |-> SP] \o Line_stop
Line_stop_81 == <<"W", ":">> \o [i \in 1..(MAX_LINE_LEN - 6) |-> SP] \o Line_stop
Line_stop_82 == <<"W", ":">> \o [i \in 1..(MAX_LINE_LEN - 5) |-> SP] \o Line_stop
Line_mcro_m_sp == Line_mcro_m \o <<SP>>
Line_mcro_wide == <<"m", "c", "r", "o", SP, TAB, "m">>
Line_m_sp == <<"m", SP>>
Line_sp_m == <<SP, "m">>
Line_mcro_x == <<"m", "c", "r", "o", SP, "x">>
Line_mcro_b == <<"m", "c", "r", "o", SP, "b">>
Line_b == <<"b">>

PreLines ==
  {Line_stop, Line_comment, Line_empty, Line_blank, Line_tab_stop,
   Line_stop_sp, Line_W_wide, Line_m, Line_stop_80, Line_stop_81,
   Line_stop_82, Line_mcroend}

\* Files with macros: a plain definition and call, blanks after the name in
\* the definition or the call, blanks before them, an empty body, a comment
\* and an empty line in a body, a call and a definition line inside a body,
\* two calls, and a call before the definition
MacroFiles ==
  {MacroFile,
   <<Line_mcro_m_sp, Line_stop, Line_mcroend, Line_m>>,
   <<Line_mcro_m, Line_stop, Line_mcroend, Line_m_sp>>,
   <<Line_mcro_wide, Line_tab_stop, Line_mcroend, Line_sp_m>>,
   <<Line_mcro_m, Line_mcroend, Line_m, Line_stop>>,
   <<Line_mcro_m, Line_comment, Line_stop, Line_empty, Line_mcroend, Line_m>>,
   <<Line_mcro_m, Line_stop, Line_mcroend, Line_mcro_b, Line_m, Line_mcroend, Line_b>>,
   <<Line_mcro_m, Line_mcro_x, Line_mcroend, Line_m>>,
   <<Line_mcro_m, Line_W_wide, Line_stop, Line_mcroend, Line_m, Line_stop, Line_m>>,
   <<Line_m, Line_mcro_m, Line_stop, Line_mcroend>>,
   <<Line_stop_82, Line_mcro_m, Line_stop, Line_mcroend, Line_m>>,
   <<Line_mcro_m, Line_stop>>}

InitPre ==
  \E src \in Readable(FilesUpTo(PreLines, MaxLines) \cup MacroFiles) \cup {Unreadable} :
    InitFor(src)

\* The assembler run again on a copy of the .am file its run over the file
\* `from` has written
PreprocessAgain ==
  /\ pc = "done"
  /\ files.am # NULLV
  /\ "from" \notin DOMAIN source
  /\ source' = [readable |-> TRUE, lines |-> files.am.lines, from |-> source.lines]
  /\ pp' = preprocessor_init
  /\ ctx' = asm_ctx_init
  /\ sp' = [IC |-> INITIAL_IC, DC |-> 0, is_externs |-> FALSE,
            is_entries |-> FALSE, max_line_number |-> 0]
  /\ pc' = "start"
  /\ reported' = <<>>
  /\ trace' = [stages |-> <<>>, left |-> <<>>, first |-> <<>>, second |-> <<>>]
  /\ UNCHANGED files

NextPre == Next \/ PreprocessAgain

SpecPre == InitPre /\ [][NextPre]_vars

\* ------------------------------------------------------------- properties

StageOrder == <<"preprocess", "first_pass", "second_pass">>

\* Preprocessing, the first pass and the second pass have all returned, each
\* with an empty error list
ErrorFreeRun ==
  /\ Len(trace.left) = 3
  /\ \A k \in 1..3 : trace.left[k] = <<>>

\* The kinds of the errors of a list
Kinds(errors) == {errors[k].kind : k \in 1..Len(errors)}

\* A lexeme that is a decimal integer: an optional sign and digits only
IsDecimal(s) ==
  /\ Len(s) >= 1
  /\ LET d == IF s[1] \in {"-", "+"} THEN 2 ELSE 1
     IN /\ d <= Len(s)
        /\ \A i \in d..Len(s) : s[i] \in Digits

RECURSIVE Magnitude(_, _)
Magnitude(s, i) ==
  IF i = 0 THEN 0
  ELSE IF s[i] \in Digits THEN Magnitude(s, i - 1) * 10 + DigitVal(s[i])
  ELSE 0

DecimalValue(s) ==
  IF s[1] = "-" THEN 0 - Magnitude(s, Len(s)) ELSE Magnitude(s, Len(s))

InRange21(v) == -1048576 <= v /\ v <= 1048575

\* The lexemes of a statement the passes saw
LexemeOf(s, k) == Lexeme(s.text, s.toks[k])

\* C1: the stages run in the order preprocess, first pass, second pass; a
\* stage runs only if every earlier stage left the error list empty; and if
\* any stage leaves the error list non-empty no .ob, .ent or .ext file is
\* written.
C1_StagesGated ==
  /\ Len(trace.stages) <= 3
  /\ trace.stages = SubSeq(StageOrder, 1, Len(trace.stages))
  /\ \A k \in 2..Len(trace.stages) :
       \A j \in 1..(k - 1) : j <= Len(trace.left) /\ trace.left[j] = <<>>
  /\ (\E j \in 1..Len(trace.left) : trace.left[j] # <<>>)
       => files.ob = NULLV /\ files.ent = NULLV /\ files.ext = NULLV

\* A file whose second pass is the stage that leaves errors: all three stages
\* ran, and nothing was written
C1_Witness ==
  /\ pc = "done"
  /\ trace.stages = StageOrder
  /\ Len(trace.left) = 3
  /\ trace.left[3] # <<>>
  /\ files.ob = NULLV /\ files.ent = NULLV /\ files.ext = NULLV

\* C2: after an error-free run the code size of the .ob header (first pass
\* IC - 100 - DC) is the number of words of the code image and the data size
\* (first pass DC) the number of words of the data image.
C2_HeaderMatchesImages ==
  (ErrorFreeRun /\ files.ob # NULLV)
    => /\ files.ob.code = Len(ctx.code_img)
       /\ files.ob.data = Len(ctx.data_img)

\* C3: after an error-free run the .ob file is written whatever the mix of
\* statements; the .ent file is written iff the entries list is non-empty and
\* the .ext file iff the externals list is non-empty.
C3_OutputsWritten ==
  ErrorFreeRun
    => /\ files.ob # NULLV
       /\ (files.ent # NULLV) <=> (ctx.entries # <<>>)
       /\ (files.ext # NULLV) <=> (ctx.externals # <<>>)

\* The first pass is over: it was entered and its loop is left
FirstPassOver == Len(trace.stages) >= 2 /\ pc # "first_pass"

\* The lines the first pass processed are the preprocessed lines, each once,
\* in order
FirstPassComplete ==
  FirstPassOver
    => /\ Len(trace.first) = Len(ctx.preprocessed_lines)
       /\ \A k \in 1..Len(trace.first) : trace.first[k].line = k

\* A step adds errors at the end of the list, or is the report after a stage
ErrorsOnlyGrow ==
  \/ /\ Len(ctx'.errors) >= Len(ctx.errors)
     /\ SubSeq(ctx'.errors, 1, Len(ctx.errors)) = ctx.errors
  \/ /\ pc \in {"check_preprocess", "check_first_pass", "check_second_pass"}
     /\ reported' = reported \o ctx.errors

\* C4: the first pass processes every preprocessed line exactly once, in
\* order, whatever errors earlier lines produced; and the error list only
\* grows until it is reported after the stage.
C4_FirstPassEveryLine == [](FirstPassComplete) /\ [][ErrorsOnlyGrow]_vars

\* The names the file declares with .extern and with .entry
DeclaredNames(is_declaration(_)) ==
  {LexemeOf(trace.first[k], 3) :
     k \in {j \in 1..Len(trace.first) :
              /\ is_declaration(trace.first[j].toks)
              /\ Len(trace.first[j].toks) >= 3}}

ExternNames == DeclaredNames(is_extern_statement)
EntryNames == DeclaredNames(is_entry_statement)

\* The record of an operand of a statement of the second pass, if the operand
\* names a symbol declared with .extern
ExternalRecord(s, operand, address) ==
  IF /\ operand # 0
     /\ s.toks[operand].type = "IDENTIFIER"
     /\ LexemeOf(s, operand) \in ExternNames
    THEN <<[name |-> LexemeOf(s, operand), address |-> address]>>
    ELSE <<>>

\* The records of the operands of one statement: the source or lone operand
\* at IC + 1, a destination that follows an immediate or identifier source at
\* IC + 2
StatementExternals(s) ==
  IF ~s.is_instruction THEN <<>>
  ELSE ExternalRecord(s, s.ins.rs, s.IC + 1)
       \o ExternalRecord(s, s.ins.rt,
            IF s.ins.rs # 0 /\ s.toks[s.ins.rs].type \in {"IMM", "IDENTIFIER"}
              THEN s.IC + 2 ELSE s.IC + 1)

RECURSIVE ExpectedExternals(_)
ExpectedExternals(k) ==
  IF k > Len(trace.second) THEN <<>>
  ELSE StatementExternals(trace.second[k]) \o ExpectedExternals(k + 1)

\* C5: after a successful second pass the externals list holds exactly one
\* record per instruction operand that names a symbol declared with .extern,
\* in statement order, each with the address of the extra word emitted for
\* that operand.
C5_ExternalsPerOperand ==
  ErrorFreeRun => ctx.externals = ExpectedExternals(1)

\* The addresses at which the first pass saw name defined as a label
LabelAddresses(name) ==
  {trace.first[k].IC :
     k \in {j \in 1..Len(trace.first) :
              /\ Len(trace.first[j].toks) >= 1
              /\ trace.first[j].toks[1].type = "LABEL"
              /\ LexemeOf(trace.first[j], 1) = name}}

\* C6: after a successful second pass every name declared with .entry (and
\* defined as a label in the file) appears exactly once in the entries list,
\* with the address at which the label is defined.
C6_EntriesOncePerName ==
  ErrorFreeRun
    => \A name \in {n \in EntryNames : LabelAddresses(n) # {}} :
         /\ Cardinality({k \in 1..Len(ctx.entries) : ctx.entries[k].name = name}) = 1
         /\ \A k \in 1..Len(ctx.entries) :
              ctx.entries[k].name = name
                => ctx.entries[k].address \in LabelAddresses(name)

\* A statement "op #v, dest": a two operand mnemonic whose table admits an
\* immediate source, an in-range decimal v, and a register or an identifier as
\* destination
ImmediateSourceStatement(s) ==
  /\ Len(s.toks) = 5
  /\ \A k \in 1..4 : s.toks[k].start # 0
  /\ LexemeOf(s, 1) \in {<<"m","o","v">>, <<"c","m","p">>, <<"a","d","d">>, <<"s","u","b">>}
  /\ LexemeOf(s, 2) = <<"#">>
  /\ IsDecimal(LexemeOf(s, 3)) /\ InRange21(DecimalValue(LexemeOf(s, 3)))
  /\ LexemeOf(s, 4) = <<",">>
  /\ s.toks[5].type \in {"REGISTER", "IDENTIFIER"}

\* C7: a two operand instruction with an in-range immediate source and a
\* register or label destination passes the first pass with no error, the
\* immediate as source, the second operand as destination, and a word count
\* of 1 plus the number of operands that are not registers.
C7_ImmediateSourceAccepted ==
  \A k \in 1..Len(trace.first) :
    ImmediateSourceStatement(trace.first[k])
      => /\ trace.first[k].errors = <<>>
         /\ trace.first[k].ins.rs = 3
         /\ trace.first[k].ins.rt = 5
         /\ trace.first[k].ins.code_word_count
              = 2 + (IF trace.first[k].toks[5].type = "IDENTIFIER" THEN 1 ELSE 0)

\* The operands of a statement: registers, identifiers and the lexemes that
\* follow a hash or stand as immediates
OperandPositions(s) ==
  {k \in 1..Len(s.toks) :
     \/ s.toks[k].type \in {"REGISTER", "IDENTIFIER"}
     \/ s.toks[k].type = "IMM" /\ LexemeOf(s, k) # <<",">>}

\* The table's entry for the mnemonic of a statement
MnemonicOf(s) ==
  LET at == {k \in 1..Len(s.toks) : s.toks[k].type = "INSTRUCTION"}
  IN IF at = {} THEN NULLV
     ELSE find_instruction(LexemeOf(s, CHOOSE k \in at : \A j \in at : k <= j))

\* The flag of the table for an addressing mode written into a header word
ModeFlag(mode) == 2 ^ mode

\* The header word of a statement carries permitted modes for the operand
\* positions the mnemonic has
HeaderModesPermitted(s) ==
  LET info == MnemonicOf(s)
      header == s.words[1].value
  IN /\ info # NULLV
     /\ info.num_operands = 2
          => ModeFlag(Field(header, SRC_ADD_MODE_POS, 2)) \in info.allowd_src_add_mode
     /\ info.num_operands >= 1
          => ModeFlag(Field(header, DST_ADD_MODE_POS, 2)) \in info.allowd_dst_add_mode

\* C8: every instruction statement that passes the first pass without error
\* has as many operands as the table's num_operands for its mnemonic, and the
\* addressing modes the second pass writes into its header word are modes the
\* table permits for the operand positions.
C8_OperandsMatchTable ==
  /\ \A k \in 1..Len(trace.first) :
       (trace.first[k].is_instruction /\ trace.first[k].errors = <<>>
        /\ (k < Len(trace.first) \/ pc # "fault"))
         => /\ MnemonicOf(trace.first[k]) # NULLV
            /\ Cardinality(OperandPositions(trace.first[k]))
                 = MnemonicOf(trace.first[k]).num_operands
  /\ \A k \in 1..Len(trace.second) :
       (trace.second[k].is_instruction /\ Len(trace.second[k].words) >= 1)
         => HeaderModesPermitted(trace.second[k])

\* The positions of the immediate operands "#v" of a statement, v a decimal
ImmediatePositions(s) ==
  {k \in 2..Len(s.toks) :
     /\ s.toks[k - 1].start # 0 /\ s.toks[k].start # 0
     /\ LexemeOf(s, k - 1) = <<"#">>
     /\ IsDecimal(LexemeOf(s, k))}

\* The index, among the words of a statement, of the extra word of the
\* operand at position k: the header, then one word for every operand up to k
\* that is not a register
ExtraWordIndex(s, k) ==
  1 + Cardinality({j \in OperandPositions(s) : j <= k /\ s.toks[j].type # "REGISTER"})

\* Bits 3..23 of a word as a signed 21-bit number
Signed21(word) ==
  LET field == Field(word, IMM_SHIFT, 21)
  IN IF field >= 2 ^ 20 THEN field - 2 ^ 21 ELSE field

\* C9: an immediate operand v is accepted by the first pass iff
\* -1048576 <= v <= 1048575, and reported as IMM_OUT_OF_BOUNDS otherwise; an
\* accepted v is emitted as one extra word whose bits 3..23 hold v in 21-bit
\* two's complement and whose ARE bits are 4.
C9_ImmediateRangeAndWord ==
  /\ \A k \in 1..Len(trace.first) :
       \A i \in ImmediatePositions(trace.first[k]) :
         LET v == DecimalValue(LexemeOf(trace.first[k], i))
         IN trace.first[k].is_instruction
              => IF InRange21(v)
                   THEN trace.first[k].errors = <<>>
                   ELSE "IMM_OUT_OF_BOUNDS" \in Kinds(trace.first[k].errors)
  /\ \A k \in 1..Len(trace.second) :
       \A i \in ImmediatePositions(trace.second[k]) :
         LET s == trace.second[k]
             v == DecimalValue(LexemeOf(s, i))
         IN (s.is_instruction /\ InRange21(v) /\ (k < Len(trace.second) \/ pc # "fault"))
              => /\ ExtraWordIndex(s, i) <= Len(s.words)
                 /\ Signed21(s.words[ExtraWordIndex(s, i)].value) = v
                 /\ Field(s.words[ExtraWordIndex(s, i)].value, ARE_POS, 3) = 4

\* The integers of a .data statement: the decimal lexemes after the directive
DataPositions(s) ==
  {k \in 3..Len(s.toks) :
     /\ s.toks[k].start # 0 /\ s.toks[2].start # 0
     /\ LexemeOf(s, 2) = <<"d","a","t","a">>
     /\ IsDecimal(LexemeOf(s, k))}

RECURSIVE DataValues(_, _)
DataValues(s, k) ==
  IF k > Len(s.toks) THEN <<>>
  ELSE (IF k \in DataPositions(s)
          THEN <<DecimalValue(LexemeOf(s, k)) % (2 ^ 24)>> ELSE <<>>)
       \o DataValues(s, k + 1)

\* C10: an integer v of a .data list is accepted iff -1048576 <= v <= 1048575
\* (IMM_OUT_OF_BOUNDS otherwise), and every accepted integer becomes exactly
\* one data word whose value is v masked to 24 bits.
C10_DataRangeAndWord ==
  /\ \A k \in 1..Len(trace.first) :
       LET s == trace.first[k]
           values == {DecimalValue(LexemeOf(s, i)) : i \in DataPositions(s)}
       IN (s.is_directive /\ DataPositions(s) # {})
            => IF \A v \in values : InRange21(v)
                 THEN s.errors = <<>>
                 ELSE "IMM_OUT_OF_BOUNDS" \in Kinds(s.errors)
  /\ (Len(trace.left) >= 2 /\ trace.left[2] = <<>>)
       => \A k \in 1..Len(trace.second) :
            LET s == trace.second[k]
            IN (s.is_directive /\ DataPositions(s) # {}
                /\ (k < Len(trace.second) \/ pc # "fault"))
                 => [j \in 1..Len(s.data) |-> s.data[j].value] = DataValues(s, 3)

\* The names of the instruction, register and directive tables
ReservedNames ==
  {instruction_set[i].name : i \in 1..Len(instruction_set)}
    \cup {register_table[i].name : i \in 1..Len(register_table)}
    \cup {directives[i] : i \in 1..Len(directives)}

\* A name a label may have
WellFormedLabel(name) ==
  /\ Len(name) >= 1 /\ Len(name) <= 31
  /\ name[1] \in Lower \cup Upper
  /\ \A i \in 2..Len(name) : name[i] \in Lower \cup Upper \cup Digits \cup {"_"}
  /\ name \notin ReservedNames

\* The labels of the symbol table: the symbols that are not external
TableLabels(table) ==
  {table[k].key : k \in {j \in 1..Len(table) : ~table[j].value.external}}

\* The statements of the first pass that define a label
LabelStatement(s) ==
  /\ Len(s.toks) >= 3
  /\ s.toks[1].type = "LABEL"
  /\ ~is_entry_statement(SubSeq(s.toks, 1, 3))
  /\ ~is_extern_statement(SubSeq(s.toks, 1, 3))

\* C11: every label inserted into the symbol table has a name of length 1 to
\* 31 that starts with a letter, continues with letters, digits or
\* underscores and is no instruction, register or directive name; a label of
\* length 31 is accepted and one of length 32 is rejected.
C11_TableLabelsWellFormed ==
  /\ \A name \in TableLabels(ctx.symbol_table) : WellFormedLabel(name)
  /\ \A k \in 1..Len(trace.first) :
       LET s == trace.first[k]
       IN LabelStatement(s)
            => /\ Len(LexemeOf(s, 1)) = 31
                    => "LABEL_MAX_LEN" \notin Kinds(s.errors)
               /\ Len(LexemeOf(s, 1)) = 32
                    => "LABEL_MAX_LEN" \in Kinds(s.errors)


\* The statement the first pass has just read
LastSeen(tr) == tr.first[Len(tr.first)]

\* The token that follows the label of statement s and the dot after it
AfterLabel(s) ==
  IF Len(s.toks) >= 4 /\ s.toks[3].type = "DOT" THEN s.toks[4] ELSE s.toks[3]

\* Statement s defines its label as a symbol
DefinesLabel(s) ==
  /\ Len(s.toks) >= 3
  /\ s.toks[1].type = "LABEL"
  /\ AfterLabel(s).type \in {"INSTRUCTION", "DIR_DATA", "DIR_STRING"}

\* A first-pass step over a statement that defines a label the table holds
Redefinition ==
  /\ pc = "first_pass"
  /\ Len(trace'.first) = Len(trace.first) + 1
  /\ DefinesLabel(LastSeen(trace'))
  /\ LexemeOf(LastSeen(trace'), 1) \in TableLabels(ctx.symbol_table)

\* C12: a line that defines a label an earlier line has inserted is reported
\* with the duplicate-label error, and the symbol table keeps the address of
\* the first definition.
C12_DuplicateKeepsFirst ==
  [][Redefinition
       => LET name == LexemeOf(LastSeen(trace'), 1)
          IN /\ "LABEL_NAME_DUPLICATE" \in Kinds(LastSeen(trace').errors)
             /\ hash_map_get(ctx'.symbol_table, name).address
                  = hash_map_get(ctx.symbol_table, name).address]_vars


\* Statement s declares a name with .extern
DeclaresExtern(s) ==
  /\ Len(s.toks) >= 3
  /\ s.toks[1].type = "DOT"
  /\ s.toks[2].type = "DIR_EXTERN"

\* The statements of the first pass that define name as a label, and those
\* that declare it external
Defining(name) ==
  {k \in 1..Len(trace.first) :
     DefinesLabel(trace.first[k]) /\ LexemeOf(trace.first[k], 1) = name}

Declaring(name) ==
  {k \in 1..Len(trace.first) :
     DeclaresExtern(trace.first[k]) /\ LexemeOf(trace.first[k], 3) = name}

SeenNames ==
  {LexemeOf(trace.first[k], 1) :
     k \in {j \in 1..Len(trace.first) : DefinesLabel(trace.first[j])}}

\* A name both defined and declared external has an error on one of the lines
ConflictReported ==
  \A name \in SeenNames :
    Declaring(name) # {}
      => \E k \in Defining(name) \cup Declaring(name) :
           trace.first[k].errors # <<>>

\* A step leaves every symbol of the table as it is
SymbolsKept ==
  \A i \in 1..Len(ctx.symbol_table) :
    hash_map_get(ctx'.symbol_table, ctx.symbol_table[i].key)
      = ctx.symbol_table[i].value

\* C13: no name is both external and locally defined: a file with a label and
\* an .extern of the same name gets an error whichever comes first, and
\* inserting a symbol never replaces a symbol the table already holds.
C13_ExternLabelExclusive == [](ConflictReported) /\ [][SymbolsKept]_vars


\* The errors validate_label reports
LabelErrors ==
  {"EMPTY_LABEL", "LABEL_MAX_LEN", "LABEL_NAME_DIG", "LABEL_NAME_INVALID_CHAR",
   "LABEL_NAME_INSTRUCTION", "LABEL_NAME_REGISTER", "LABEL_NAME_DIRECTIVE",
   "LABEL_NAME_DUPLICATE"}

\* Statement s defined its label: the name passed validate_label
LabelDefined(s) ==
  /\ DefinesLabel(s)
  /\ LabelStatement(s)
  /\ Kinds(s.errors) \cap LabelErrors = {}

\* C14: defining a label when the instruction counter is A reports
\* ADD_OUT_OF_BOUNDS if and only if A > 2^24 - 1; every address up to and
\* including 2^24 - 1 is accepted without that error.
C14_AddressBound ==
  \A k \in 1..Len(trace.first) :
    LabelDefined(trace.first[k])
      => ("ADD_OUT_OF_BOUNDS" \in Kinds(trace.first[k].errors)
            <=> trace.first[k].IC > 2^24 - 1)


\* The names of the stored macros: the key as validate_macro trims it
MacroNames(macros) == {sv_trim(macros[i].key) : i \in 1..Len(macros)}

\* The stored macro of that name
MacroNamed(macros, name) ==
  macros[CHOOSE i \in 1..Len(macros) : sv_trim(macros[i].key) = name].value

\* The raw line the preprocessor reads next
NextRaw == source.lines[pp.line_number + 1]

\* No line of the expanded list is empty or a comment
NoBlankOrComment ==
  \A k \in 1..Len(ctx.preprocessed_lines) :
    /\ ctx.preprocessed_lines[k] # <<>>
    /\ ctx.preprocessed_lines[k][1] # ";"

\* A step that reads, outside a definition, a line that is solely the name of
\* a stored macro appends the body lines of that macro
CallReplaced ==
  (/\ pc = "preprocess"
   /\ pp.line_number < Len(source.lines)
   /\ pp.state = "STATE_DEFAULT"
   /\ sv_trim(NextRaw) \in MacroNames(pp.macros))
    => ctx'.preprocessed_lines
         = ctx.preprocessed_lines
             \o BodyLines(MacroNamed(pp.macros, sv_trim(NextRaw)).text, 1, <<>>)

\* C15: after preprocessing the expanded line list contains no empty line, no
\* line starting with `;` and no line that is solely the name of a macro that
\* was stored when the line was read: every such call line is replaced, in
\* place, by the body lines of that macro.
C15_NoCommentBlankOrCall == [](NoBlankOrComment) /\ [][CallReplaced]_vars


\* A line whose blanks are single spaces, none of them in front
Clean(l) ==
  /\ \A i \in 1..Len(l) : l[i] # TAB
  /\ l = <<>> \/ l[1] # SP
  /\ \A i \in 1..(Len(l) - 1) : ~(l[i] = SP /\ l[i + 1] = SP)

StartsWith(l, word) == Len(l) >= Len(word) /\ SubSeq(l, 1, Len(word)) = word

\* A statement line: no comment, not empty, no macro keyword in front
StatementLine(l) ==
  /\ Clean(l)
  /\ l # <<>>
  /\ l[1] # ";"
  /\ ~StartsWith(l, MACRO_DEF)

\* A definition line `mcro NAME` and its name
DefinitionLine(l) ==
  /\ Clean(l)
  /\ StartsWith(l, MACRO_DEF \o <<SP>>)
  /\ ~StartsWith(l, MACRO_END)

DefinedName(l) == sv_trim(SubSeq(l, Len(MACRO_DEF) + 2, Len(l)))

EndLine(l) == Clean(l) /\ sv_trim(l) = MACRO_END

\* The first line after line i that ends a definition, 0 if there is none
EndOf(lines, i) ==
  IF \E j \in (i + 1)..Len(lines) : EndLine(lines[j])
    THEN CHOOSE j \in (i + 1)..Len(lines) :
           /\ EndLine(lines[j])
           /\ \A k \in (i + 1)..(j - 1) : ~EndLine(lines[k])
    ELSE 0

Defined(defs) == {defs[k].name : k \in 1..Len(defs)}

BodyOf(defs, name) == defs[CHOOSE k \in 1..Len(defs) : defs[k].name = name].body

\* The source from line i on with the definitions removed and every call line
\* replaced by the body of the called macro; ok tells whether the source is
\* made of definitions, call lines that are exactly a name defined before, and
\* statement lines only.
RECURSIVE Inlined(_, _, _, _)
Inlined(lines, i, defs, out) ==
  IF i > Len(lines) THEN [ok |-> TRUE, out |-> out]
  ELSE IF DefinitionLine(lines[i])
    THEN IF /\ EndOf(lines, i) # 0
            /\ \A k \in (i + 1)..(EndOf(lines, i) - 1) :
                 Clean(lines[k]) /\ lines[k] # <<>> /\ lines[k][1] # ";"
           THEN Inlined(lines, EndOf(lines, i) + 1,
                        Append(defs, [name |-> DefinedName(lines[i]),
                                      body |-> SubSeq(lines, i + 1, EndOf(lines, i) - 1)]),
                        out)
           ELSE [ok |-> FALSE, out |-> out]
  ELSE IF lines[i] \in Defined(defs)
    THEN Inlined(lines, i + 1, defs, out \o BodyOf(defs, lines[i]))
  ELSE IF StatementLine(lines[i]) /\ sv_trim(lines[i]) \notin Defined(defs)
    THEN Inlined(lines, i + 1, defs, Append(out, lines[i]))
  ELSE [ok |-> FALSE, out |-> out]

\* The preprocessor has ended without an error
Preprocessed == pc = "check_preprocess" /\ ctx.errors = <<>> /\ source.readable

\* C16: for a source made only of valid `mcro NAME` ... `mcroend` definitions,
\* call lines that are exactly a name defined before, and statement lines,
\* the preprocessed output is the source with the definitions removed and
\* each call line replaced, in source order, by the body lines of its macro.
C16_ExpansionIsInlining ==
  (Preprocessed /\ Inlined(source.lines, 1, <<>>, <<>>).ok)
    => ctx.preprocessed_lines = Inlined(source.lines, 1, <<>>, <<>>).out

\* A line list without macro keywords, comments and empty lines, with
\* normalised blanks
Plain(lines) == \A k \in 1..Len(lines) : StatementLine(lines[k])

\* The preprocessor has ended on a file that is the .am file of an earlier run
PreprocessedAgain ==
  /\ pc = "check_preprocess"
  /\ source.readable
  /\ "from" \in DOMAIN source

\* A plain line list is returned as it is
PlainUnchanged ==
  (pc = "check_preprocess" /\ source.readable /\ Plain(source.lines))
    => ctx.preprocessed_lines = source.lines

\* C17 as stated: preprocessing a line list without macro definitions or
\* calls, comments, empty lines and with normalised whitespace returns the
\* same list; equivalently, preprocessing the output of a preprocessing run
\* changes nothing.
C17_OutputIsFixedPoint ==
  /\ PlainUnchanged
  /\ PreprocessedAgain => ctx.preprocessed_lines = source.lines

\* C17, amended: a plain line list is returned as it is, and preprocessing
\* the output of a preprocessing run changes nothing when no line of that
\* output starts with `mcro` (a macro body can put such a line there).
C17_PlainIsFixedPoint ==
  /\ PlainUnchanged
  /\ (PreprocessedAgain
        /\ \A k \in 1..Len(source.lines) : ~StartsWith(source.lines[k], MACRO_DEF))
       => ctx.preprocessed_lines = source.lines

\* The output of a run that changed its source is preprocessed again and is
\* returned as it is
C17_Witness ==
  /\ PreprocessedAgain
  /\ source.lines # <<>>
  /\ source.from # source.lines
  /\ Plain(source.lines)
  /\ ctx.preprocessed_lines = source.lines


\* The line-length errors among errors
LengthErrors(errors) ==
  {errors[k].line : k \in {j \in 1..Len(errors) : errors[j].kind = "MAX_LINE_LEN"}}

\* The preprocessor has read every line of a readable file when it ends
AllLinesRead ==
  (pc = "check_preprocess" /\ source.readable)
    => pp.line_number = Len(source.lines)

\* A step that reads a raw line of length 80 reports no line-length error for
\* it; a step that reads one of length 81 reports the error, stays in the
\* loop and handles the line: a statement read outside a definition is
\* appended to the expanded list.
LengthChecked ==
  (pc = "preprocess" /\ pp.line_number < Len(source.lines))
    => /\ Len(NextRaw) = 80
            => (pp.line_number + 1) \notin LengthErrors(ctx'.errors)
       /\ Len(NextRaw) = 81
            => /\ (pp.line_number + 1) \in LengthErrors(ctx'.errors)
               /\ pc' = "preprocess"
               /\ pp'.line_number = pp.line_number + 1
               /\ (pp.state = "STATE_DEFAULT" /\ StatementLine(xstrdup_norm(NextRaw))
                     /\ ~is_macro_call(pp.macros, NextRaw))
                    => Len(ctx'.preprocessed_lines) = Len(ctx.preprocessed_lines) + 1

\* C18: a raw source line of length 80 produces no line-length error; a raw
\* line of length 81 produces one, and the preprocessor still goes on to
\* process that line and all following lines.
C18_LineLengthLimit == [](AllLinesRead) /\ [][LengthChecked]_vars


\* The mode field of an operand of a parsed statement: the addressing mode
\* the parser recorded, 0 without an operand
ModeField(operand, mode) == IF operand = 0 \/ mode = ADD_MOD_NONE THEN 0 ELSE mode

\* The register field: the register number of a register operand, else 0
RegisterField(s, operand, mode) ==
  IF operand # 0 /\ mode = ADD_MOD_REGISTER /\ find_register(LexemeOf(s, operand)) # NULLV
    THEN find_register(LexemeOf(s, operand)).reg
    ELSE 0

\* The header word the layout gives for a statement of the second pass
HeaderOf(s) ==
  MnemonicOf(s).opcode * 2 ^ 18
    + ModeField(s.ins.rs, s.ins.rs_add_mode) * 2 ^ 16
    + RegisterField(s, s.ins.rs, s.ins.rs_add_mode) * 2 ^ 13
    + ModeField(s.ins.rt, s.ins.rt_add_mode) * 2 ^ 11
    + RegisterField(s, s.ins.rt, s.ins.rt_add_mode) * 2 ^ 8
    + MnemonicOf(s).funct * 2 ^ 3
    + 4

\* The seven fields of a word lie side by side and fill 24 bits
FieldsApart(word) ==
  /\ word < 2 ^ 24
  /\ word = Field(word, OPCODE_POS, 6) * 2 ^ 18 + Field(word, SRC_ADD_MODE_POS, 2) * 2 ^ 16
             + Field(word, SRC_OPERAND_POS, 3) * 2 ^ 13
             + Field(word, DST_ADD_MODE_POS, 2) * 2 ^ 11
             + Field(word, DST_OPERAND_POS, 3) * 2 ^ 8 + Field(word, FUNCT_POS, 5) * 2 ^ 3
             + Field(word, ARE_POS, 3)

\* C19: the header word of every encoded instruction is
\* opcode*2^18 + srcMode*2^16 + srcReg*2^13 + dstMode*2^11 + dstReg*2^8 +
\* funct*2^3 + 4, with opcode and funct from the table, the modes
\* IMMEDIATE=0, DIRECT=1, RELATIVE=2, REGISTER=3, and a register field that is
\* the register number for register operands only; the fields never overlap
\* and the word is below 2^24.
C19_HeaderWordLayout ==
  \A k \in 1..Len(trace.second) :
    (trace.second[k].is_instruction /\ Len(trace.second[k].words) >= 1)
      => /\ MnemonicOf(trace.second[k]) # NULLV
         /\ trace.second[k].words[1].value = HeaderOf(trace.second[k])
         /\ FieldsApart(trace.second[k].words[1].value)


\* C20: for every input file that can be read each stage returns by normal
\* completion and never reads a token or list element that does not exist: a
\* source with no statements, a `.data` directive with no values and a
\* `.entry` or `.extern` directive with no name end with errors reported or
\* output written, not with a fault.
C20_NoFault == source.readable => pc # "fault"

\* The names of each table
Mnemonics == {instruction_set[i].name : i \in 1..Len(instruction_set)}
RegisterNames == {register_table[i].name : i \in 1..Len(register_table)}

\* The kind of the directive a lexeme names, "NONE" if it names none
DirectiveKind(lexeme) ==
  IF lexeme = directives[1] THEN "DIR_DATA"
  ELSE IF lexeme = directives[2] THEN "DIR_STRING"
  ELSE IF lexeme = directives[3] THEN "DIR_ENTRY"
  ELSE IF lexeme = directives[4] THEN "DIR_EXTERN"
  ELSE "NONE"

\* A lexeme of letters, digits and underscores that starts with a letter
IdentifierShaped(lexeme) ==
  /\ Len(lexeme) >= 1
  /\ lexeme[1] \in Lower \cup Upper
  /\ \A i \in 2..Len(lexeme) : lexeme[i] \in Lower \cup Upper \cup Digits \cup {"_"}

\* The kind token_identify gives the lexeme of token k of statement s agrees
\* with the tables
KindByTables(s, k) ==
  LET kind == token_identify(s.text, s.toks[k].start, s.toks[k].len)
      lexeme == LexemeOf(s, k)
  IN /\ kind = "INSTRUCTION" <=> lexeme \in Mnemonics
     /\ kind = "REGISTER" <=> lexeme \in RegisterNames
     /\ \A d \in {"DIR_DATA", "DIR_STRING", "DIR_ENTRY", "DIR_EXTERN"} :
          kind = d <=> DirectiveKind(lexeme) = d
     /\ (IdentifierShaped(lexeme) /\ lexeme \notin ReservedNames)
          => kind = "IDENTIFIER"

\* C21: the classification by characters gives a lexeme the kind INSTRUCTION
\* if and only if it equals one of the 16 mnemonics, REGISTER if and only if
\* it equals one of r0..r7, and a directive kind if and only if it equals
\* data, string, entry or extern; every other lexeme that starts with a letter
\* and continues with letters, digits or underscores is IDENTIFIER.
C21_KindsByExactName ==
  \A n \in 1..Len(trace.first) :
    \A k \in 1..Len(trace.first[n].toks) :
      trace.first[n].toks[k].start # 0 => KindByTables(trace.first[n], k)



\* The addressing mode an operand has by itself: by its own kind and by
\* whether an ampersand stands immediately before it
OwnMode(s, k) ==
  CASE s.toks[k].type = "IMM" -> ADD_MOD_IMMEDIATE
    [] s.toks[k].type = "REGISTER" -> ADD_MOD_REGISTER
    [] s.toks[k].type = "IDENTIFIER" ->
         IF k > 1 /\ s.toks[k - 1].type = "AMPER" THEN ADD_MOD_RELATIVE
         ELSE ADD_MOD_DIRECT
    [] OTHER -> ADD_MOD_NONE

\* The operands the parser recorded for a statement have their own modes
ModesByOperand(s) ==
  /\ s.ins.rs # 0 => s.ins.rs_add_mode = OwnMode(s, s.ins.rs)
  /\ s.ins.rt # 0 => s.ins.rt_add_mode = OwnMode(s, s.ins.rt)

\* C22: the addressing mode the parser resolves for an operand depends only
\* on that operand: IMMEDIATE for an immediate, REGISTER for a register,
\* RELATIVE for an identifier immediately preceded by an ampersand and DIRECT
\* for a bare identifier; an ampersand before one operand changes the mode of
\* no other operand, and a register or an immediate is never RELATIVE.
C22_ModeByOperandAlone ==
  \A n \in 1..Len(trace.first) :
    trace.first[n].is_instruction => ModesByOperand(trace.first[n])


\* The token that follows the optional label and colon of a statement is a
\* mnemonic
MnemonicFirst(s) ==
  /\ Len(s.toks) >= FirstAfterLabel(s.toks)
  /\ s.toks[FirstAfterLabel(s.toks)].type = "INSTRUCTION"

\* C23: the first token after the optional label and colon of an instruction
\* statement is a mnemonic; a statement where it is not, such as
\* ",mov r7, r2", is reported as an error by the first pass and never reaches
\* the second pass.
C23_MnemonicComesFirst ==
  \A n \in 1..Len(trace.first) :
    (trace.first[n].is_instruction /\ ~MnemonicFirst(trace.first[n]))
      => /\ trace.first[n].errors # <<>>
         /\ \A k \in 1..Len(trace.second) : trace.second[k].line # trace.first[n].line


\* The positions of the quotes of a line
Quotes(text) == {i \in 1..Len(text) : text[i] = "\""}

\* A .string statement with a literal between two quotes
StringStatement(s) ==
  /\ s.is_directive
  /\ \E k \in 1..Len(s.toks) : s.toks[k].type = "DIR_STRING"
  /\ Cardinality(Quotes(s.text)) = 2

\* The literal of a .string statement: the characters between its quotes
LiteralOf(s) ==
  LET first == CHOOSE i \in Quotes(s.text) : \A j \in Quotes(s.text) : i <= j
      last == CHOOSE i \in Quotes(s.text) : \A j \in Quotes(s.text) : j <= i
  IN SubSeq(s.text, first + 1, last - 1)

\* The data words of a literal: its character codes, then a zero word
LiteralWords(literal) ==
  [k \in 1..(Len(literal) + 1) |->
     IF k <= Len(literal) THEN CharCode(literal[k]) ELSE 0]

\* The first pass counts one word for each character of the literal and one
\* for the terminator
StringCounted(s) ==
  (StringStatement(s) /\ s.errors = <<>>)
    => s.dir.code_word_count = Len(LiteralOf(s)) + 1

\* The second pass appends the words of the literal of the statement the
\* first pass saw on the same line
StringEmitted(s) ==
  \A n \in 1..Len(trace.first) :
    (trace.first[n].line = s.line /\ StringStatement(trace.first[n]) /\ s.is_directive)
      => [k \in 1..Len(s.data) |-> s.data[k].value] = LiteralWords(LiteralOf(trace.first[n]))

\* C24: for a .string statement with a literal of n characters, blanks
\* included, the first pass adds n + 1 to DC and IC and the second pass
\* appends exactly n + 1 data words: the character codes in order, then one
\* zero word.
C24_StringWords ==
  /\ \A n \in 1..Len(trace.first) : StringCounted(trace.first[n])
  /\ \A k \in 1..Len(trace.second) : StringEmitted(trace.second[k])


\* The identifier operands the parser recorded for a statement
IdentifierOperands(s) ==
  {k \in {s.ins.rs, s.ins.rt} : k # 0 /\ s.toks[k].type = "IDENTIFIER"}

\* The symbol an identifier operand names, NULLV without an entry
SymbolOf(s, k) == hash_map_get(ctx.symbol_table, LexemeOf(s, k))

\* The statement was encoded whole: the header and one word for every
\* immediate or identifier operand
EncodedWhole(s) ==
  /\ s.is_instruction
  /\ \A k \in IdentifierOperands(s) : SymbolOf(s, k) # NULLV
  /\ Len(s.words) = 1 + Cardinality({k \in {s.ins.rs, s.ins.rt} :
                                       k # 0 /\ s.toks[k].type \in {"IMM", "IDENTIFIER"}})

\* The extra word of the operand at position k
ExtraWordOf(s, k) ==
  s.words[1 + Cardinality({j \in {s.ins.rs, s.ins.rt} :
                             j # 0 /\ j <= k /\ s.toks[j].type \in {"IMM", "IDENTIFIER"}})]

\* The ARE field and the address field of the extra word of an identifier
\* operand follow the operand's mode and the symbol's entry
ExtraWordBySymbol(s, k) ==
  LET word == ExtraWordOf(s, k)
      are == Field(word.value, ARE_POS, 3)
      mode == OwnMode(s, k)
      symbol == SymbolOf(s, k)
  IN /\ are = ARE_EXTERNAL <=> (mode = ADD_MOD_DIRECT /\ symbol.external)
     /\ are = ARE_RELOCATABLE <=> (mode = ADD_MOD_DIRECT /\ ~symbol.external)
     /\ are = ARE_ABSOLUTE <=> mode = ADD_MOD_RELATIVE
     /\ mode = ADD_MOD_DIRECT => Field(word.value, IMM_SHIFT, 21) = symbol.address
     /\ mode = ADD_MOD_RELATIVE
          => Signed21(word.value) = symbol.address - word.address + 1

\* C25: the extra word of an identifier operand has ARE = EXTERNAL (1) iff
\* the operand is DIRECT and the symbol is external, RELOCATABLE (2) iff it
\* is DIRECT and the symbol is local, and ABSOLUTE (4) iff it is RELATIVE;
\* bits 3..23 hold the symbol's address for DIRECT and the symbol's address
\* minus the address of the extra word plus 1 for RELATIVE.
C25_ExtraWordOfIdentifier ==
  \A n \in 1..Len(trace.second) :
    EncodedWhole(trace.second[n])
      => \A k \in IdentifierOperands(trace.second[n]) :
           ExtraWordBySymbol(trace.second[n], k)

\* A jump back to a label by its distance has been encoded
C25_Witness ==
  \E n \in 1..Len(trace.second) :
    /\ EncodedWhole(trace.second[n])
    /\ \E k \in IdentifierOperands(trace.second[n]) :
         /\ OwnMode(trace.second[n], k) = ADD_MOD_RELATIVE
         /\ Signed21(ExtraWordOf(trace.second[n], k).value) < 0


\* The names the file defines as labels
FileLabels ==
  {LexemeOf(trace.first[n], 1) :
     n \in {j \in 1..Len(trace.first) : DefinesLabel(trace.first[j])}}

\* The second pass met an identifier operand that has no entry in the
\* symbol table
UnknownOperand ==
  \E n \in 1..Len(trace.second) :
    /\ trace.second[n].is_instruction
    /\ \E k \in IdentifierOperands(trace.second[n]) : SymbolOf(trace.second[n], k) = NULLV

\* The run is over: the second pass has returned or the process has ended
RunOver == pc \in {"done", "fault"}

\* The unknown operand is reported and no output file is written
UnknownReported ==
  (UnknownOperand /\ RunOver)
    => /\ "SYMBOL_NOT_FOUND" \in Kinds(reported \o ctx.errors)
       /\ files.ob = NULLV /\ files.ent = NULLV /\ files.ext = NULLV

\* An operand that names a label of the file is found, wherever the label is
LabelsFound ==
  \A n \in 1..Len(trace.second) :
    trace.second[n].is_instruction
      => \A k \in IdentifierOperands(trace.second[n]) :
           LexemeOf(trace.second[n], k) \in FileLabels
             => SymbolOf(trace.second[n], k) # NULLV

\* SYMBOL_NOT_FOUND is reported for unknown operands only
FoundUnreported ==
  "SYMBOL_NOT_FOUND" \in Kinds(reported \o ctx.errors) => UnknownOperand

\* C26: an identifier operand without an entry in the symbol table at the
\* second pass makes the assembler report SYMBOL_NOT_FOUND and write no .ob,
\* .ent or .ext file; an identifier defined as a label anywhere in the file,
\* on a later line included, never yields SYMBOL_NOT_FOUND.
C26_UnknownSymbolReported == UnknownReported /\ LabelsFound /\ FoundUnreported



\* The preprocessor reads, outside a definition, a line that is neither
\* empty, a comment nor a macro keyword line
ReadsStatement ==
  /\ pc = "preprocess"
  /\ pp.line_number < Len(source.lines)
  /\ pp.state = "STATE_DEFAULT"
  /\ sv_trim(NextRaw) # <<>>
  /\ sv_trim(NextRaw)[1] # ";"
  /\ ~StartsWith(sv_trim(NextRaw), MACRO_DEF)

\* The lines before line n hold a whole definition of the name: a header
\* `mcro NAME` and, after it, a line `mcroend`
DefinedBefore(name, n) ==
  \E j \in 1..(n - 1) : \E e \in (j + 1)..(n - 1) :
    /\ StartsWith(sv_trim(source.lines[j]), MACRO_DEF)
    /\ sv_trim(SubSeq(sv_trim(source.lines[j]), Len(MACRO_DEF) + 1,
                      Len(sv_trim(source.lines[j])))) = name
    /\ StartsWith(sv_trim(source.lines[e]), MACRO_END)

\* The line read is emitted as it is, with its blanks normalised
EmittedUnchanged ==
  ctx'.preprocessed_lines
    = Append(ctx.preprocessed_lines,
             xstrdup_norm(SubSeq(NextRaw, LeftBlanks(NextRaw, 1) + 1, Len(NextRaw))))

\* A line is replaced only when its name has a definition before it; a line
\* without one is emitted as it is and adds no error
CallNeedsDefinition ==
  ReadsStatement
    => /\ ~EmittedUnchanged => DefinedBefore(sv_trim(NextRaw), pp.line_number + 1)
       /\ ~DefinedBefore(sv_trim(NextRaw), pp.line_number + 1)
            => /\ EmittedUnchanged
               /\ Len(NextRaw) <= MAX_LINE_LEN => ctx'.errors = ctx.errors

\* C27: a line that is solely NAME is replaced by a macro body only if the
\* definition of NAME was committed earlier in the file; a call line that
\* precedes the definition of its macro is emitted unchanged and the
\* preprocessor reports no error for it.
C27_CallOnlyAfterDefinition == [][CallNeedsDefinition]_vars

\* A call line has been emitted as it is and its macro is defined after it
C27_Witness ==
  /\ pc = "preprocess"
  /\ \E n \in 1..pp.line_number :
       /\ source.lines[n] = Line_m
       /\ ~DefinedBefore(Line_m, n)
       /\ Line_m \in MacroNames(pp.macros)
       /\ ctx.preprocessed_lines # <<>>
       /\ ctx.preprocessed_lines[1] = Line_m
       /\ ctx.errors = <<>>


\* A macro name no check rejects: a lower-case letter, then letters, digits
\* and underscores, no reserved word and not the name of a stored macro
FreshMacroName(name) ==
  /\ IdentifierShaped(name)
  /\ name[1] \in Lower
  /\ Len(name) <= MAX_MCRO_NAME_LEN
  /\ name \notin ReservedNames
  /\ name \notin MacroNames(pp.macros)

\* The preprocessor reads the line `mcroend` of a definition whose header is
\* `mcro NAME` with a name no check rejects
EndsSoundDefinition ==
  /\ pc = "preprocess"
  /\ pp.line_number < Len(source.lines)
  /\ pp.state = "STATE_MACRO"
  /\ NextRaw = MACRO_END
  /\ Len(pp.current_macro) >= 1
  /\ StartsWith(pp.current_macro[1], MACRO_DEF \o <<SP>>)
  /\ FreshMacroName(SubSeq(pp.current_macro[1], Len(MACRO_DEF) + 2,
                           Len(pp.current_macro[1])))

\* The definition that ends is stored under its name and reports no error
SoundDefinitionStored ==
  EndsSoundDefinition
    => /\ SubSeq(pp.current_macro[1], Len(MACRO_DEF) + 2, Len(pp.current_macro[1]))
            \in MacroNames(pp'.macros)
       /\ ctx'.errors = ctx.errors

\* C28: whether a definition is stored at `mcroend` depends only on its own
\* header, terminator and name: a definition that violates no check is stored,
\* and expanded at its calls, even when errors were reported earlier in the
\* file for other lines or macros.
C28_DefinitionJudgedAlone == [][SoundDefinitionStored]_vars


\* The input ends while the preprocessor is inside a definition: an error is
\* in the list and no .am file is written
EndInsideDefinition ==
  (pc = "preprocess" /\ pc' = "check_preprocess" /\ pp.state = "STATE_MACRO")
    => /\ ctx'.errors # <<>>
       /\ files'.am = files.am

\* C30: when the input ends while the preprocessor is in the MACRO state (a
\* `mcro` header without a matching `mcroend`), an error is reported and no
\* .am file is written; the buffered lines are never dropped silently with
\* the preprocessing counted as successful.
C30_UnterminatedMacroReported == [][EndInsideDefinition]_vars


\* The words the second pass emitted for a statement, code before data
EmittedFor(s) == s.words \o s.data

\* The addresses of the words the second pass emitted, statement by statement
RECURSIVE EmittedAddresses(_)
EmittedAddresses(n) ==
  IF n = 0 THEN <<>>
  ELSE EmittedAddresses(n - 1)
         \o [k \in 1..Len(EmittedFor(trace.second[n])) |->
               EmittedFor(trace.second[n])[k].address]

\* The run has ended and no stage left an error
EndedErrorFree == pc = "done" /\ ErrorFreeRun

\* The address of every label is the address of the first word of its
\* statement
LabelsAtFirstWord ==
  \A n \in 1..Len(trace.second) :
    (/\ Len(trace.second[n].toks) >= 1
     /\ trace.second[n].toks[1].type = "LABEL"
     /\ EmittedFor(trace.second[n]) # <<>>)
      => /\ SymbolOf(trace.second[n], 1) # NULLV
         /\ SymbolOf(trace.second[n], 1).address = EmittedFor(trace.second[n])[1].address

\* The emitted words have the addresses 100, 101, ... without gap or repeat
AddressesInARow ==
  LET addresses == EmittedAddresses(Len(trace.second))
  IN /\ \A i, j \in 1..Len(addresses) : addresses[i] = addresses[j] => i = j
     /\ {addresses[i] : i \in 1..Len(addresses)}
          = INITIAL_IC..(INITIAL_IC + Len(addresses) - 1)

\* C29: after an error-free run the address of each label in the symbol
\* table is the address of the first word the second pass emits for the
\* labelled statement, every emitted word has an address of its own, and the
\* addresses are exactly 100 .. 100 + (number of emitted words) - 1.
C29_AddressesAgree == EndedErrorFree => (LabelsAtFirstWord /\ AddressesInARow)

====
